---- MODULE Spec2Model ----
(***************************************************************************)
(* A model of the persistence layer of becomeAnAuthor (src/backend/src):   *)
(* the project-level and series-level codex stores, the project registry,  *)
(* the structure tree of a project and the series backup import.           *)
(*                                                                         *)
(* A file system is modelled by what the commands can observe of it: a     *)
(* directory of entry files is the set of its (category, id) paths, a      *)
(* flat-collection file (a JSON array) is the sequence of its records, a   *)
(* missing file and a file holding [] are the same empty sequence          *)
(* (read_json_vec, codex.rs:14-16).  Identifiers that the front end        *)
(* chooses (codex entries, relations, tags, links) are strings taken from  *)
(* small finite sets; identifiers the back end generates with              *)
(* uuid::Uuid::new_v4 are successive values of the counter nextUuid.       *)
(*                                                                         *)
(* The module holds several specifications, one per subsystem; each one    *)
(* leaves the variables of the other subsystems unchanged.                 *)
(***************************************************************************)
EXTENDS Integers, Sequences, FiniteSets, TLC

VARIABLES
    codexFiles,        \* <project>/.meta/codex/<category>/<id>.json: the set of entry
                       \* files, each [category, id, projectId]; (category, id) is its path
    relations,         \* <project>/.meta/codex_relations.json
    sceneLinks,        \* <project>/.meta/scene_codex_links.json
    entryTags,         \* <project>/.meta/codex_entry_tags.json
    tags,              \* <project>/.meta/codex_tags.json
    relationTypes,     \* <project>/.meta/codex_relation_types.json
    seriesCodexFiles,  \* <app>/series/<seriesId>/codex/<category>/<id>.json: for each
                       \* series id, the set of its entry files
    seriesRelations,   \* <app>/series/<seriesId>/codex_relations.json: for each series id
    projectDirs,       \* the project folders that hold a readable .meta/project.json:
                       \* each [at, id, title, seriesId, seriesIndex, path], at being
                       \* where the folder is and the rest its ProjectMeta
    registry,          \* <app>/project_registry.json: the registered paths
    recent,            \* <app>/recent.json: the recently opened paths
    seriesList,        \* <app>/.meta/series.json
    nextUuid,          \* the next value uuid::Uuid::new_v4 returns
    structure,         \* <project>/.meta/structure.json of the project edited
    manuscript,        \* <project>/manuscript: the names of the files in it
    dn,                \* the delete_node call in progress, if any
    trash,             \* <app>/Trash: the project folders moved there, each as in
                       \* projectDirs with at where it is in the trash
    deletedSeries,     \* <app>/.meta/deleted_series_registry.json
    exports,           \* the backup documents written, each [path, doc]
    dsc,               \* the delete_series_cascade call in progress, if any
    otherFiles,        \* what lies two levels under a codex root besides the entry
                       \* files: each [root, category, name, ext, kind]
    chat,              \* <project>/.meta/chat of the project being imported:
                       \* threads.json and the files of messages/
    disk,              \* the bytes of .meta/project.json, of one scene document and of
                       \* its .tmp neighbour, and the write in progress, if any
    upserts,           \* the save_codex_relation calls of two callers in progress: what
                       \* each read and when, and the count of their reads and writes
    sse,               \* the save_series_codex_entry call in progress, if any
    templates,         \* <project>/.meta/codex_templates.json
    itemFs,            \* the scene files and the folders of the project whose items
                       \* are trashed: manuscript/*.md, .meta and what lies under it
    last               \* history: the last command, its arguments and, where a claim
                       \* compares with it, the state it started from

codexVars == <<codexFiles, relations, sceneLinks, entryTags, tags, relationTypes>>

seriesCodexVars == <<seriesCodexFiles, seriesRelations>>

projVars == <<projectDirs, registry, recent, seriesList>>

treeVars == <<structure, manuscript, dn>>

lifeVars == <<trash, deletedSeries, exports, dsc>>

\* What the commands working step by step or on single items use.
procVars == <<itemFs, upserts, templates, sse>>

ioVars == <<otherFiles, disk, chat, procVars>>

\* What no codex command touches.
restVars == <<projVars, nextUuid, treeVars, lifeVars, ioVars>>

vars == <<codexVars, seriesCodexVars, restVars, last>>

\* A Series of series.json; an Option is {} or {value}.
NewSeries(id, title, description, author, genre, status) ==
    [id |-> id, title |-> title, description |-> description, author |-> author,
     genre |-> genre, status |-> status]

\* No write is in progress.
IdleWrite == [op |-> "idle", step |-> "idle", old |-> "absent", new |-> "absent"]

\* The part of every initial state that is the same: nothing lies in a
\* codex folder besides entry files; project.json and the scene document
\* hold their first content and no write is in progress.
InitIo ==
    /\ otherFiles = {}
    /\ disk = [project |-> "c1", scene |-> "c1", tmp |-> "absent", pc |-> IdleWrite]
    /\ chat = [restored |-> FALSE, threads |-> <<>>, files |-> {}]
    /\ itemFs = [scenes |-> {<<"manuscript", "u1">>, <<"manuscript", "u2">>},
                 dirs |-> {<<"manuscript">>, <<".meta">>, <<".meta", "escape">>},
                 trashed |-> {}]
    /\ templates = <<>>
    /\ sse = [pc |-> "idle"]
    /\ upserts = [calls |-> [c \in {"A", "B"} |-> [pc |-> "idle"]], clock |-> 0]

(***************************************************************************)
(* Identifier universes of the front end's inputs.                         *)
(***************************************************************************)
EntryIds == {"e1", "e2"}

Categories == {"character", "lore"}

RelationIds == {"r1", "r2"}

LinkIds == {"l1"}

EntryTagIds == {"x1"}

TagIds == {"t1"}

TypeIds == {"y1"}

SceneIds == {"sc1"}

\* How many identifiers uuid::Uuid::new_v4 hands out in one run of the model.
MaxUuid == 6

\* The identifiers the back end generates (series ids, project ids, node ids).
Uuids == 1..MaxUuid

\* Option::None of an Option<String> field (CodexRelation.type_id).
NoneId == "none"

(***************************************************************************)
(* Flat collections: "a JSON array of records in one file".                *)
(***************************************************************************)

\* The save that takes the record of the same id out and adds the new one
\* at the end.
RemoveAndPush(items, item) ==
    Append(SelectSeq(items, LAMBDA r : r.id # item.id), item)

\* The id-matched upsert every save_* command of a flat collection performs:
\* position(|r| r.id == item.id), replace in place, else push.
Upsert(items, item) ==
    IF \E i \in 1..Len(items) : items[i].id = item.id
    THEN LET idx == CHOOSE i \in 1..Len(items) :
                        /\ items[i].id = item.id
                        /\ \A j \in 1..(i - 1) : items[j].id # item.id
         IN  [items EXCEPT ![idx] = item]
    ELSE Append(items, item)

\* Vec::retain(|r| r.id != id)
RetainOtherIds(items, id) ==
    SelectSeq(items, LAMBDA r : r.id # id)

\* relations.retain(|r| r.parent_id != entry_id && r.child_id != entry_id)
RetainRelationsNotReferencing(rels, e) ==
    SelectSeq(rels, LAMBDA r : r.parentId # e /\ r.childId # e)

\* The retain of the scene links with its condition inverted.
RetainLinksInverted(links, e) ==
    SelectSeq(links, LAMBDA l : l.codexId = e)

\* scene_links.retain(|link| link.codex_id != entry_id)
RetainLinksNotReferencing(links, e) ==
    SelectSeq(links, LAMBDA l : l.codexId # e)

\* entry_tags.retain(|entry_tag| entry_tag.entry_id != entry_id)
RetainEntryTagsNotOfEntry(rows, e) ==
    SelectSeq(rows, LAMBDA x : x.entryId # e)

\* The rows of the entry the first row of the tag belongs to go as well.
RetainEntryTagsNotOfTaggedEntry(rows, t) ==
    SelectSeq(rows, LAMBDA x : \A i \in 1..Len(rows) :
                                  rows[i].tagId = t => rows[i].entryId # x.entryId)

\* entry_tags.retain(|entry_tag| entry_tag.tag_id != tag_id)
RetainEntryTagsNotOfTag(rows, t) ==
    SelectSeq(rows, LAMBDA x : x.tagId # t)

\* relations.retain(|relation| relation.type_id.as_deref() != Some(type_id))
RetainRelationsNotOfType(rels, t) ==
    SelectSeq(rels, LAMBDA r : r.typeId # t)

Range(s) == {s[i] : i \in 1..Len(s)}

(***************************************************************************)
(* Entry files.                                                            *)
(***************************************************************************)

\* WalkDir::new(codex_root).min_depth(2).max_depth(2), filtered on the file
\* name <id>.json: the files of entry e under every category folder.
FilesNamed(files, e) == {f \in files : f.id = e}

\* The file at the path <category>/<id>.json, if there is one.
FileAt(files, c, e) == {f \in files : f.category = c /\ f.id = e}

\* fs::write(<category>/<id>.json, json): the path holds the new content.
WriteEntryFile(files, entry) ==
    (files \ FileAt(files, entry.category, entry.id)) \cup {entry}

\* The removal of the file under the given category only, without the walk.
RemoveEntryFilesOfCategoryOnly(files, e, c) ==
    files \ FileAt(files, c, e)

\* delete_codex_entry, lines 75-88: every <category>/<e>.json found by the
\* walk is removed, then the path of the category passed in.
RemoveEntryFiles(files, e, c) ==
    (files \ FilesNamed(files, e)) \ FileAt(files, c, e)

\* The ids list_codex_entries returns: one per entry file.
ListedEntryIds(files) == {f.id : f \in files}

(***************************************************************************)
(* Project-level codex commands (commands/codex.rs).  Every fs call is     *)
(* taken to succeed, so each command returns Ok.                           *)
(***************************************************************************)

\* What a command of the project-level codex starts from.
CodexSnapshot ==
    [codexFiles |-> codexFiles, relations |-> relations, sceneLinks |-> sceneLinks,
     entryTags |-> entryTags, tags |-> tags, relationTypes |-> relationTypes]

\* save_codex_entry: writes <category>/<id>.json; no other folder is looked at.
SaveCodexEntry(entry) ==
    /\ codexFiles' = WriteEntryFile(codexFiles, entry)
    /\ last' = [op |-> "save_codex_entry", entry |-> entry]
    /\ UNCHANGED <<relations, sceneLinks, entryTags, tags, relationTypes, seriesCodexVars, restVars>>

\* delete_codex_entry: the entry files, then the three cascades.
DeleteCodexEntry(e, c) ==
    /\ codexFiles' = RemoveEntryFiles(codexFiles, e, c)
    /\ relations' = RetainRelationsNotReferencing(relations, e)
    /\ sceneLinks' = RetainLinksNotReferencing(sceneLinks, e)
    /\ entryTags' = RetainEntryTagsNotOfEntry(entryTags, e)
    /\ last' = [op |-> "delete_codex_entry", id |-> e, category |-> c,
                pre |-> CodexSnapshot]
    /\ UNCHANGED <<tags, relationTypes, seriesCodexVars, restVars>>

\* delete_codex_tag: the tag, then the entry-tag rows of that tag.
DeleteCodexTag(t) ==
    /\ tags' = RetainOtherIds(tags, t)
    /\ entryTags' = RetainEntryTagsNotOfTag(entryTags, t)
    /\ last' = [op |-> "delete_codex_tag", id |-> t, pre |-> CodexSnapshot]
    /\ UNCHANGED <<codexFiles, relations, sceneLinks, relationTypes, seriesCodexVars, restVars>>

\* delete_codex_relation_type: the type, then the relations of that type.
DeleteCodexRelationType(t) ==
    /\ relationTypes' = RetainOtherIds(relationTypes, t)
    /\ relations' = RetainRelationsNotOfType(relations, t)
    /\ last' = [op |-> "delete_codex_relation_type", id |-> t,
                pre |-> CodexSnapshot]
    /\ UNCHANGED <<codexFiles, sceneLinks, entryTags, tags, seriesCodexVars, restVars>>

\* save_codex_relation: upsert; neither parentId, childId nor typeId is looked up.
SaveCodexRelation(r) ==
    /\ relations' = Upsert(relations, r)
    /\ last' = [op |-> "save_codex_relation"]
    /\ UNCHANGED <<codexFiles, sceneLinks, entryTags, tags, relationTypes, seriesCodexVars, restVars>>

\* delete_codex_relation
DeleteCodexRelation(id) ==
    /\ relations' = RetainOtherIds(relations, id)
    /\ last' = [op |-> "delete_codex_relation"]
    /\ UNCHANGED <<codexFiles, sceneLinks, entryTags, tags, relationTypes, seriesCodexVars, restVars>>

\* save_codex_tag
SaveCodexTag(t) ==
    /\ tags' = Upsert(tags, t)
    /\ last' = [op |-> "save_codex_tag"]
    /\ UNCHANGED <<codexFiles, relations, sceneLinks, entryTags, relationTypes, seriesCodexVars, restVars>>

\* save_codex_entry_tag: upsert; neither entryId nor tagId is looked up.
SaveCodexEntryTag(x) ==
    /\ entryTags' = Upsert(entryTags, x)
    /\ last' = [op |-> "save_codex_entry_tag"]
    /\ UNCHANGED <<codexFiles, relations, sceneLinks, tags, relationTypes, seriesCodexVars, restVars>>

\* delete_codex_entry_tag
DeleteCodexEntryTag(id) ==
    /\ entryTags' = RetainOtherIds(entryTags, id)
    /\ last' = [op |-> "delete_codex_entry_tag"]
    /\ UNCHANGED <<codexFiles, relations, sceneLinks, tags, relationTypes, seriesCodexVars, restVars>>

\* save_codex_relation_type
SaveCodexRelationType(t) ==
    /\ relationTypes' = Upsert(relationTypes, t)
    /\ last' = [op |-> "save_codex_relation_type"]
    /\ UNCHANGED <<codexFiles, relations, sceneLinks, entryTags, tags, seriesCodexVars, restVars>>

\* save_scene_codex_link: upsert; codexId is not looked up.
SaveSceneCodexLink(l) ==
    /\ sceneLinks' = Upsert(sceneLinks, l)
    /\ last' = [op |-> "save_scene_codex_link"]
    /\ UNCHANGED <<codexFiles, relations, entryTags, tags, relationTypes, seriesCodexVars, restVars>>

\* delete_scene_codex_link
DeleteSceneCodexLink(id) ==
    /\ sceneLinks' = RetainOtherIds(sceneLinks, id)
    /\ last' = [op |-> "delete_scene_codex_link"]
    /\ UNCHANGED <<codexFiles, relations, entryTags, tags, relationTypes, seriesCodexVars, restVars>>

(***************************************************************************)
(* SpecCodex: one project's codex, its entries, relations, scene links,    *)
(* tags and entry-tag rows.  Relations carry no type here; relation types  *)
(* are exercised by SpecRelationTypes.                                     *)
(***************************************************************************)
InitEmpty ==
    /\ codexFiles = {}
    /\ relations = <<>>
    /\ sceneLinks = <<>>
    /\ entryTags = <<>>
    /\ tags = <<>>
    /\ relationTypes = <<>>
    /\ seriesCodexFiles = [s \in Uuids |-> {}]
    /\ seriesRelations = [s \in Uuids |-> <<>>]
    /\ projectDirs = {}
    /\ registry = {}
    /\ recent = {}
    /\ seriesList = <<>>
    /\ nextUuid = 1
    /\ structure = <<>>
    /\ manuscript = {}
    /\ dn = [pc |-> "idle"]
    /\ trash = {}
    /\ deletedSeries = <<>>
    /\ exports = {}
    /\ dsc = [pc |-> "idle"]
    /\ InitIo
    /\ last = [op |-> "init"]

NextCodex ==
    \/ \E e \in EntryIds, c \in Categories :
           SaveCodexEntry([category |-> c, id |-> e, projectId |-> 1])
    \/ \E e \in EntryIds, c \in Categories : DeleteCodexEntry(e, c)
    \/ \E id \in RelationIds, p \in EntryIds, c \in EntryIds :
           SaveCodexRelation([id |-> id, parentId |-> p, childId |-> c,
                              projectId |-> 1, typeId |-> NoneId])
    \/ \E id \in RelationIds : DeleteCodexRelation(id)
    \/ \E id \in LinkIds, s \in SceneIds, e \in EntryIds :
           SaveSceneCodexLink([id |-> id, sceneId |-> s, codexId |-> e])
    \/ \E id \in LinkIds : DeleteSceneCodexLink(id)
    \/ \E t \in TagIds : SaveCodexTag([id |-> t])
    \/ \E t \in TagIds : DeleteCodexTag(t)
    \/ \E id \in EntryTagIds, e \in EntryIds, t \in TagIds :
           SaveCodexEntryTag([id |-> id, entryId |-> e, tagId |-> t])
    \/ \E id \in EntryTagIds : DeleteCodexEntryTag(id)

SpecCodex == InitEmpty /\ [][NextCodex]_vars

(***************************************************************************)
(* Series-level codex commands (commands/series.rs).  The scene links and  *)
(* the entry-tag rows stay in the project's .meta folder; the series       *)
(* folder holds the entry files and one relations file.                    *)
(***************************************************************************)

\* The write without the removal of the copies under other categories.
WriteOverSamePathOnly(files, entry) == WriteEntryFile(files, entry)

\* The files save_series_codex_entry leaves under the codex root: every
\* <category>/<id>.json found by the walk is removed, then
\* <entry.category>/<id>.json is written.
SavedSeriesEntryFiles(files, entry) ==
    WriteEntryFile(files \ FilesNamed(files, entry.id), entry)

\* save_series_codex_entry
SaveSeriesCodexEntry(s, entry) ==
    /\ seriesCodexFiles' =
           [seriesCodexFiles EXCEPT ![s] = SavedSeriesEntryFiles(@, entry)]
    /\ last' = [op |-> "save_series_codex_entry", series |-> s, entry |-> entry]
    /\ UNCHANGED <<codexVars, seriesRelations, restVars>>

\* delete_series_codex_entry: the entry files, then the series relations;
\* the project files scene_codex_links.json and codex_entry_tags.json are
\* not opened.
DeleteSeriesCodexEntry(s, e, c) ==
    /\ seriesCodexFiles' = [seriesCodexFiles EXCEPT ![s] = RemoveEntryFiles(@, e, c)]
    /\ seriesRelations' =
           [seriesRelations EXCEPT ![s] = RetainRelationsNotReferencing(@, e)]
    /\ last' = [op |-> "delete_series_codex_entry", series |-> s, id |-> e,
                category |-> c]
    /\ UNCHANGED <<codexVars, restVars>>

\* save_series_codex_relation: upsert; parentId and childId are not looked up.
SaveSeriesCodexRelation(s, r) ==
    /\ seriesRelations' = [seriesRelations EXCEPT ![s] = Upsert(@, r)]
    /\ last' = [op |-> "save_series_codex_relation"]
    /\ UNCHANGED <<codexVars, seriesCodexFiles, restVars>>

\* delete_series_codex_relation
DeleteSeriesCodexRelation(s, id) ==
    /\ seriesRelations' = [seriesRelations EXCEPT ![s] = RetainOtherIds(@, id)]
    /\ last' = [op |-> "delete_series_codex_relation"]
    /\ UNCHANGED <<codexVars, seriesCodexFiles, restVars>>

(***************************************************************************)
(* SpecSeriesCodex: the codex of series 1 as the projects of that series   *)
(* use it: entries and relations in the series folder, scene links, tags   *)
(* and entry-tag rows in the project.                                      *)
(***************************************************************************)
NextSeriesCodex ==
    \/ \E e \in EntryIds, c \in Categories :
           SaveSeriesCodexEntry(1, [category |-> c, id |-> e, projectId |-> 1])
    \/ \E e \in EntryIds, c \in Categories : DeleteSeriesCodexEntry(1, e, c)
    \/ \E id \in RelationIds, p \in EntryIds, c \in EntryIds :
           SaveSeriesCodexRelation(1, [id |-> id, parentId |-> p, childId |-> c,
                                       projectId |-> 1, typeId |-> NoneId])
    \/ \E id \in RelationIds : DeleteSeriesCodexRelation(1, id)
    \/ \E id \in LinkIds, s \in SceneIds, e \in EntryIds :
           SaveSceneCodexLink([id |-> id, sceneId |-> s, codexId |-> e])
    \/ \E id \in LinkIds : DeleteSceneCodexLink(id)
    \/ \E t \in TagIds : SaveCodexTag([id |-> t])
    \/ \E t \in TagIds : DeleteCodexTag(t)
    \/ \E id \in EntryTagIds, e \in EntryIds, t \in TagIds :
           SaveCodexEntryTag([id |-> id, entryId |-> e, tagId |-> t])

SpecSeriesCodex == InitEmpty /\ [][NextSeriesCodex]_vars

(***************************************************************************)
(* SpecRelationTypes: the relations of a project and the catalog of        *)
(* relation types.                                                         *)
(***************************************************************************)
NextRelationTypes ==
    \/ \E t \in TypeIds : SaveCodexRelationType([id |-> t])
    \/ \E t \in TypeIds : DeleteCodexRelationType(t)
    \/ \E id \in RelationIds, p \in EntryIds, c \in EntryIds, t \in TypeIds \cup {NoneId} :
           SaveCodexRelation([id |-> id, parentId |-> p, childId |-> c,
                              projectId |-> 1, typeId |-> t])
    \/ \E id \in RelationIds : DeleteCodexRelation(id)

SpecRelationTypes == InitEmpty /\ [][NextRelationTypes]_vars

(***************************************************************************)
(* Claims about the codex.                                                 *)
(***************************************************************************)

\* The entry ids that exist for the project: an entry file in its own codex
\* folder or in the codex folder of a series.
ExistingEntryIds ==
    ListedEntryIds(codexFiles) \cup UNION {ListedEntryIds(seriesCodexFiles[s]) : s \in Uuids}

\* C1: after delete_codex_entry(project, e, category) returned Ok, no relation
\* of the project has parentId = e or childId = e, no scene link has
\* codexId = e, no entry-tag row has entryId = e, and no file e.json is left
\* under any category folder, whatever category was passed.
C1_DeleteEntryLeavesNoReference ==
    last.op = "delete_codex_entry" =>
        /\ \A r \in Range(relations) : r.parentId # last.id /\ r.childId # last.id
        /\ \A l \in Range(sceneLinks) : l.codexId # last.id
        /\ \A x \in Range(entryTags) : x.entryId # last.id
        /\ \A f \in codexFiles : f.id # last.id

\* A delete of an entry that was the parent of one relation and the child of
\* another, had a scene link and an entry-tag row, and had a file under a
\* category folder other than the one passed.
C1_Witness ==
    /\ last.op = "delete_codex_entry"
    /\ \E r \in Range(last.pre.relations) : r.parentId = last.id /\ r.childId # last.id
    /\ \E r \in Range(last.pre.relations) : r.childId = last.id /\ r.parentId # last.id
    /\ \E l \in Range(last.pre.sceneLinks) : l.codexId = last.id
    /\ \E x \in Range(last.pre.entryTags) : x.entryId = last.id
    /\ \E f \in last.pre.codexFiles : f.id = last.id /\ f.category # last.category

\* C3: after every mutation of the codex, every relation stored in a
\* relations collection (of the project, of a series) has a parentId and a
\* childId that each refer to an entry that exists in the same scope.
C3_RelationsReferToExistingEntries ==
    /\ \A r \in Range(relations) :
           /\ r.parentId \in ListedEntryIds(codexFiles)
           /\ r.childId \in ListedEntryIds(codexFiles)
    /\ \A s \in Uuids : \A r \in Range(seriesRelations[s]) :
           /\ r.parentId \in ListedEntryIds(seriesCodexFiles[s])
           /\ r.childId \in ListedEntryIds(seriesCodexFiles[s])

\* C4: after every mutation, every stored scene link has a codexId that
\* refers to a codex entry that exists; in particular a series-level delete
\* of an entry leaves no scene link pointing at it.
C4_SceneLinksReferToExistingEntries ==
    \A l \in Range(sceneLinks) : l.codexId \in ExistingEntryIds

\* C5: after every mutation, every stored entry-tag row has an entryId that
\* refers to an existing codex entry and a tagId that refers to an existing tag.
C5_EntryTagsReferToExistingEntriesAndTags ==
    \A x \in Range(entryTags) :
        /\ x.entryId \in ExistingEntryIds
        /\ \E t \in Range(tags) : t.id = x.tagId

\* C6: delete_codex_relation_type(project, t) removes type t from the catalog
\* and keeps every relation: exactly the relations whose typeId was t have
\* their typeId cleared, none is removed, and afterwards none has typeId = t.
C6_DeleteRelationTypeClearsTypeId ==
    last.op = "delete_codex_relation_type" =>
        /\ \A t \in Range(relationTypes) : t.id # last.id
        /\ Len(relations) = Len(last.pre.relations)
        /\ \A i \in 1..Len(last.pre.relations) :
               i <= Len(relations) =>
                   relations[i] =
                       IF last.pre.relations[i].typeId = last.id
                       THEN [last.pre.relations[i] EXCEPT !.typeId = NoneId]
                       ELSE last.pre.relations[i]
        /\ \A r \in Range(relations) : r.typeId # last.id

\* C7: delete_codex_entry(project, e, category) changes nothing that does not
\* reference e: the other entry files, the tags, the relations whose parentId
\* and childId both differ from e, the scene links of other entries and the
\* entry-tag rows of other entries are present and unchanged afterwards.
C7_DeleteEntryFrame ==
    last.op = "delete_codex_entry" =>
        /\ \A f \in last.pre.codexFiles : f.id # last.id => f \in codexFiles
        /\ codexFiles \subseteq last.pre.codexFiles
        /\ tags = last.pre.tags
        /\ relationTypes = last.pre.relationTypes
        /\ \A r \in Range(last.pre.relations) :
               (r.parentId # last.id /\ r.childId # last.id) => r \in Range(relations)
        /\ Range(relations) \subseteq Range(last.pre.relations)
        /\ \A l \in Range(last.pre.sceneLinks) :
               l.codexId # last.id => l \in Range(sceneLinks)
        /\ Range(sceneLinks) \subseteq Range(last.pre.sceneLinks)
        /\ \A x \in Range(last.pre.entryTags) :
               x.entryId # last.id => x \in Range(entryTags)
        /\ Range(entryTags) \subseteq Range(last.pre.entryTags)

\* A delete of an entry that had a relation, from a state that also held a
\* relation between other entries, a scene link and an entry-tag row of
\* another entry, a tag and the file of another entry.
C7_Witness ==
    /\ last.op = "delete_codex_entry"
    /\ \E r \in Range(last.pre.relations) : r.parentId = last.id \/ r.childId = last.id
    /\ \E r \in Range(relations) : r.parentId # last.id /\ r.childId # last.id
    /\ \E l \in Range(sceneLinks) : l.codexId # last.id
    /\ \E x \in Range(entryTags) : x.entryId # last.id
    /\ tags # <<>>
    /\ \E f \in codexFiles : f.id # last.id
    /\ \E f \in last.pre.codexFiles : f.id = last.id

(***************************************************************************)
(* Projects (commands/project.rs).  A path is [dir, name]: the folder the  *)
(* project was created in and the folder name, a tuple of the parts the    *)
(* code joins with '_'.  An Option<T> argument is the empty set (None) or  *)
(* a singleton (Some(v)).                                                  *)
(***************************************************************************)

\* The titles the front end sends.
Titles == {"Dune", "DUNE", ""}

\* validate_project_creation on the titles of the model: only the empty
\* title is rejected (no title here has a separator, a leading dot, a
\* dangerous character or more than MAX_PROJECT_TITLE_LENGTH characters).
ValidProjectTitle(t) == t # ""

\* slugify: every non-alphanumeric character becomes '_', then to_lowercase.
Slugify(t) ==
    CASE t = "Dune" -> "dune"
      [] t = "DUNE" -> "dune"
      [] t = "Saga" -> "saga"
      [] t = "Cycle" -> "cycle"
      [] t = "" -> ""

\* The custom_path values the front end sends, and those that exist.
BaseDirs == {"Projects", "Documents", "Missing"}

ExistingBaseDirs == {"Projects", "Documents"}

\* get_projects_dir(): <app>/Projects
ProjectsDir == "Projects"

\* The series_id "" that create_project rejects.
EmptySeriesId == 0

SeriesIdInputs == {EmptySeriesId, 1, 2}

SeriesIndexInputs == {"Book 1", "Book 2"}

\* list_projects: the candidate paths are the registered ones, the recent
\* ones and the folders of <app>/Projects; a candidate is listed when its
\* .meta/project.json can be read.
ListedProjects ==
    {d \in projectDirs : d.at \in registry \cup recent \/ d.at.dir = ProjectsDir}

\* list_recent_projects rewrites recent.json without the paths that hold no
\* project.json (the 30-day pruning is AgeOutRecent).
RecentAfterList == {p \in recent : \E d \in projectDirs : d.at = p}

\* list_projects rewrites the registry with the path field of every listed
\* project.
RegistryAfterList == {d.path : d \in ListedProjects}

\* History: the ids of the listed projects that have this series id and this
\* series index when a command starts.
PairUsers(seriesId, seriesIndex) ==
    {d.id : d \in {e \in ListedProjects :
                      e.seriesId = seriesId /\ e.seriesIndex = seriesIndex}}

\* The check without the exclusion of the project being updated.
DuplicateBookNumberCountingSelf(seriesId, seriesIndex, exclude) ==
    PairUsers(seriesId, seriesIndex) # {}

\* check_duplicate_book_number: some listed project, other than the excluded
\* one, has this series id and this series index.
DuplicateBookNumber(seriesId, seriesIndex, exclude) ==
    \E d \in ListedProjects :
        /\ d.id \notin exclude
        /\ d.seriesId = seriesId
        /\ d.seriesIndex = seriesIndex

\* create_project, as the state it leaves and its result.
CreateProjectResult(title, dir, seriesId, seriesIndex) ==
    LET at == [dir |-> dir, name |-> <<Slugify(title)>>]
        unchanged == [projectDirs |-> projectDirs, registry |-> registry,
                      recent |-> recent, nextUuid |-> nextUuid]
        listed == [unchanged EXCEPT !.registry = RegistryAfterList,
                                    !.recent = RecentAfterList]
    IN  IF ~ValidProjectTitle(title)
        THEN unchanged @@ [ok |-> FALSE, err |-> "title"]
        ELSE IF seriesId = EmptySeriesId
        THEN unchanged @@ [ok |-> FALSE, err |-> "series required"]
        ELSE IF DuplicateBookNumber(seriesId, seriesIndex, {})
        THEN listed @@ [ok |-> FALSE, err |-> "duplicate"]
        ELSE IF dir \notin ExistingBaseDirs
        THEN listed @@ [ok |-> FALSE, err |-> "no directory"]
        ELSE IF \E d \in projectDirs : d.at = at
        THEN listed @@ [ok |-> FALSE, err |-> "exists"]
        ELSE [projectDirs |-> projectDirs \cup
                  {[at |-> at, id |-> nextUuid, title |-> title,
                    seriesId |-> seriesId, seriesIndex |-> seriesIndex, path |-> at,
                    structure |-> <<>>, manuscript |-> {}]},
              registry |-> RegistryAfterList \cup {at},
              recent |-> RecentAfterList \cup {at},
              nextUuid |-> nextUuid + 1,
              ok |-> TRUE, err |-> ""]

CreateProject(title, dir, seriesId, seriesIndex) ==
    /\ nextUuid <= MaxUuid
    /\ LET res == CreateProjectResult(title, dir, seriesId, seriesIndex)
       IN  /\ projectDirs' = res.projectDirs
           /\ registry' = res.registry
           /\ recent' = res.recent
           /\ nextUuid' = res.nextUuid
           /\ last' = [op |-> "create_project", ok |-> res.ok, err |-> res.err,
                       users |-> PairUsers(seriesId, seriesIndex),
                       valid |-> ValidProjectTitle(title) /\ seriesId # EmptySeriesId,
                       free |-> /\ dir \in ExistingBaseDirs
                                /\ \A d \in projectDirs :
                                       d.at # [dir |-> dir, name |-> <<Slugify(title)>>],
                       pair |-> <<seriesId, seriesIndex>>,
                       pre |-> IF res.ok THEN {} ELSE projectDirs]
    /\ UNCHANGED <<ioVars, lifeVars, codexVars, seriesCodexVars, seriesList, treeVars>>

\* The pair with the project's own series id even when the update gives one.
UpdateCheckedPairOfOldSeries(project, updates) ==
    [seriesId |-> project.seriesId,
     seriesIndex |-> IF updates.seriesIndex = {} THEN project.seriesIndex
                     ELSE CHOOSE i \in updates.seriesIndex : TRUE]

\* The (series id, series index) pair update_project hands to
\* check_duplicate_book_number: the update's value where given, else the
\* project's own.
UpdateCheckedPair(project, updates) ==
    [seriesId |-> IF updates.seriesId = {} THEN project.seriesId
                  ELSE CHOOSE i \in updates.seriesId : TRUE,
     seriesIndex |-> IF updates.seriesIndex = {} THEN project.seriesIndex
                     ELSE CHOOSE i \in updates.seriesIndex : TRUE]

\* The ProjectMeta update_project writes: each field given replaces the old.
UpdatedProject(project, updates) ==
    [project EXCEPT
        !.title = IF updates.title = {} THEN @ ELSE CHOOSE t \in updates.title : TRUE,
        !.seriesId = IF updates.seriesId = {} THEN @
                     ELSE CHOOSE i \in updates.seriesId : TRUE,
        !.seriesIndex = IF updates.seriesIndex = {} THEN @
                        ELSE CHOOSE i \in updates.seriesIndex : TRUE]

\* update_project on the folder at: without a project.json there it fails;
\* the duplicate check runs when the update gives a series id or a series
\* index.
UpdateProject(at, updates) ==
    /\ IF ~\E d \in projectDirs : d.at = at
       THEN /\ last' = [op |-> "update_project", ok |-> FALSE, err |-> "not found",
                        checked |-> FALSE, id |-> {}, users |-> {},
                        pre |-> projectDirs]
            /\ UNCHANGED <<projectDirs, registry, recent>>
       ELSE LET project == CHOOSE d \in projectDirs : d.at = at
                checked == updates.seriesId # {} \/ updates.seriesIndex # {}
                pair == UpdateCheckedPair(project, updates)
            IN  IF checked /\ DuplicateBookNumber(pair.seriesId, pair.seriesIndex,
                                                  {project.id})
                THEN /\ last' = [op |-> "update_project", ok |-> FALSE,
                                 err |-> "duplicate", checked |-> checked,
                                 id |-> {project.id},
                                 users |-> PairUsers(pair.seriesId, pair.seriesIndex),
                                 pre |-> projectDirs]
                     /\ registry' = RegistryAfterList
                     /\ recent' = RecentAfterList
                     /\ UNCHANGED projectDirs
                ELSE /\ projectDirs' =
                            (projectDirs \ {project}) \cup {UpdatedProject(project, updates)}
                     /\ registry' = IF checked THEN RegistryAfterList ELSE registry
                     /\ recent' = IF checked THEN RecentAfterList ELSE recent
                     /\ last' = [op |-> "update_project", ok |-> TRUE, err |-> "",
                                 checked |-> checked, id |-> {project.id},
                                 users |-> PairUsers(pair.seriesId, pair.seriesIndex),
                                 pre |-> {}]
    /\ UNCHANGED <<ioVars, lifeVars, codexVars, seriesCodexVars, seriesList, nextUuid, treeVars>>

\* list_recent_projects drops the entries not opened for 30 days: time has
\* passed for the entry p.
AgeOutRecent(p) ==
    /\ p \in recent
    /\ recent' = recent \ {p}
    /\ last' = [op |-> "list_recent_projects"]
    /\ UNCHANGED <<ioVars, lifeVars, codexVars, seriesCodexVars, projectDirs, registry, seriesList,
                   nextUuid, treeVars>>

(***************************************************************************)
(* SpecCreateUpdate: two series exist; projects are created and updated.   *)
(***************************************************************************)
InitTwoSeries ==
    /\ codexFiles = {}
    /\ relations = <<>>
    /\ sceneLinks = <<>>
    /\ entryTags = <<>>
    /\ tags = <<>>
    /\ relationTypes = <<>>
    /\ seriesCodexFiles = [s \in Uuids |-> {}]
    /\ seriesRelations = [s \in Uuids |-> <<>>]
    /\ projectDirs = {}
    /\ registry = {}
    /\ recent = {}
    /\ seriesList = <<NewSeries(1, "Saga", {}, {}, {}, {}),
                    NewSeries(2, "Cycle", {}, {}, {}, {})>>
    /\ nextUuid = 3
    /\ structure = <<>>
    /\ manuscript = {}
    /\ dn = [pc |-> "idle"]
    /\ trash = {}
    /\ deletedSeries = <<>>
    /\ exports = {}
    /\ dsc = [pc |-> "idle"]
    /\ InitIo
    /\ last = [op |-> "init"]

Paths == [dir : BaseDirs, name : {<<Slugify(t)>> : t \in Titles}]

NextCreateUpdate ==
    \/ \E t \in Titles, d \in BaseDirs, s \in SeriesIdInputs, i \in SeriesIndexInputs :
           CreateProject(t, d, s, i)
    \/ \E at \in Paths,
          t \in {{}, {"DUNE"}},
          s \in {{}} \cup {{x} : x \in SeriesIdInputs},
          i \in {{}} \cup {{x} : x \in SeriesIndexInputs} :
           UpdateProject(at, [title |-> t, seriesId |-> s, seriesIndex |-> i])
    \/ \E p \in Paths : AgeOutRecent(p)

SpecCreateUpdate == InitTwoSeries /\ [][NextCreateUpdate]_vars

\* C2: for any sequence of create_project and update_project calls, no two
\* distinct listed projects have the same seriesId and the same seriesIndex.
C2_SeriesIndexUnique ==
    \A p, q \in ListedProjects :
        (p.seriesId = q.seriesId /\ p.seriesIndex = q.seriesIndex) => p = q

\* An accepted update of a series id or a series index that went through the
\* duplicate check, leaving two listed projects in one series.
C2_Witness ==
    /\ last.op = "update_project"
    /\ last.ok
    /\ last.checked
    /\ \E p, q \in ListedProjects : p # q /\ p.seriesId = q.seriesId

\* C15: create_project with a series id and a series index that some listed
\* project already has is rejected, with the duplicate-index error when the
\* title and the series id pass the checks made before it, and no project
\* folder or metadata is created or changed; with a pair no listed project
\* has, a valid title and series id, an existing directory and a free folder
\* name it succeeds and the project exists with that pair.  update_project,
\* when it is given a series id or a series index, is rejected in the same
\* way when a listed project other than the one updated has the resulting
\* pair, and is not rejected when only the updated project has it.
C15_DuplicateIndexRejectedBeforeMutation ==
    /\ last.op = "create_project" =>
           /\ last.users # {} =>
                  /\ ~last.ok
                  /\ last.valid => last.err = "duplicate"
                  /\ projectDirs = last.pre
           /\ (last.users = {} /\ last.valid /\ last.free) =>
                  /\ last.ok
                  /\ \E d \in ListedProjects :
                         <<d.seriesId, d.seriesIndex>> = last.pair
    /\ (last.op = "update_project" /\ last.checked) =>
           /\ last.users \ last.id # {} =>
                  /\ ~last.ok
                  /\ last.err = "duplicate"
                  /\ projectDirs = last.pre
           /\ last.users \subseteq last.id => last.ok

\* A create_project rejected for a duplicate index while a project exists,
\* after a create_project of the other index had succeeded in that series.
C15_Witness ==
    /\ last.op = "create_project"
    /\ last.users # {}
    /\ last.valid
    /\ last.err = "duplicate"
    /\ \E p, q \in ListedProjects :
           /\ p.seriesId = q.seriesId
           /\ p.seriesIndex # q.seriesIndex
           /\ <<p.seriesId, p.seriesIndex>> = last.pair

(***************************************************************************)
(* The structure tree of one project (commands/project.rs).  A node is     *)
(* [id, type, title, order, children, file]: children is the sequence of   *)
(* child nodes, file is {} (None) or {name} (Some(name)).  structure is    *)
(* .meta/structure.json, manuscript the file names in manuscript/.         *)
(***************************************************************************)

\* The newest uuid create_node may draw in the model.
MaxNodeUuid == 4

NodeTypes == {"act", "scene"}

\* format!("{}.md", id)
SceneFileName(id) == <<id, ".md">>

RECURSIVE CollectSceneFilesOfAll(_)

\* collect_scene_files without the descent into the children: the node's own
\* file only.
CollectOwnSceneFile(node) ==
    IF node.file = {} THEN <<>> ELSE <<CHOOSE f \in node.file : TRUE>>

\* collect_scene_files: the node's file, then the files of each child's
\* subtree, in order.
CollectSceneFiles(node) ==
    (IF node.file = {} THEN <<>> ELSE <<CHOOSE f \in node.file : TRUE>>)
        \o CollectSceneFilesOfAll(node.children)

\* The loop of collect_scene_files over the children.
CollectSceneFilesOfAll(nodes) ==
    IF nodes = <<>> THEN <<>>
    ELSE CollectSceneFiles(Head(nodes)) \o CollectSceneFilesOfAll(Tail(nodes))

\* nodes.iter().position(|n| n.id == node_id), as {} or {pos}.
Position(nodes, id) ==
    IF \E i \in 1..Len(nodes) : nodes[i].id = id
    THEN {CHOOSE i \in 1..Len(nodes) :
              /\ nodes[i].id = id
              /\ \A j \in 1..(i - 1) : nodes[j].id # id}
    ELSE {}

\* nodes.remove(pos)
RemoveAt(nodes, pos) == SubSeq(nodes, 1, pos - 1) \o SubSeq(nodes, pos + 1, Len(nodes))

RECURSIVE DeleteFromTree(_, _), DeleteFromChildren(_, _)

\* delete_from_tree: a node with this id on this level is removed and its
\* subtree's files collected; else the first child list that holds it.
DeleteFromTree(nodes, id) ==
    IF Position(nodes, id) # {}
    THEN LET pos == CHOOSE i \in Position(nodes, id) : TRUE
         IN  [nodes |-> RemoveAt(nodes, pos),
              files |-> CollectSceneFiles(nodes[pos]),
              found |-> TRUE]
    ELSE DeleteFromChildren(nodes, id)

\* The loop "for node in nodes.iter_mut()" of delete_from_tree.
DeleteFromChildren(nodes, id) ==
    IF nodes = <<>> THEN [nodes |-> <<>>, files |-> <<>>, found |-> FALSE]
    ELSE LET r == DeleteFromTree(Head(nodes).children, id)
         IN  IF r.found
             THEN [nodes |-> <<[Head(nodes) EXCEPT !.children = r.nodes]>> \o Tail(nodes),
                   files |-> r.files,
                   found |-> TRUE]
             ELSE LET rest == DeleteFromChildren(Tail(nodes), id)
                  IN  [nodes |-> <<Head(nodes)>> \o rest.nodes,
                       files |-> rest.files,
                       found |-> rest.found]

RECURSIVE FindParent(_, _)

\* find_parent: the number of children of the first node, in pre-order,
\* with this id, as {} or {count}.
FindParent(nodes, pid) ==
    IF nodes = <<>> THEN {}
    ELSE IF Head(nodes).id = pid THEN {Len(Head(nodes).children)}
    ELSE IF FindParent(Head(nodes).children, pid) # {}
    THEN FindParent(Head(nodes).children, pid)
    ELSE FindParent(Tail(nodes), pid)

\* The count of the top level whatever the parent.
CountRootNodes(nodes, parent) == Len(nodes)

\* count_children: the order of a new node under this parent.
CountChildren(nodes, parent) ==
    IF parent = {} THEN Len(nodes)
    ELSE LET found == FindParent(nodes, CHOOSE pid \in parent : TRUE)
         IN  IF found = {} THEN 0 ELSE CHOOSE c \in found : TRUE

RECURSIVE AddToParentNode(_, _, _)

\* add_to_parent for Some(pid): the new node becomes the last child of the
\* first node, in pre-order, with this id.
AddToParentNode(nodes, pid, newNode) ==
    IF nodes = <<>> THEN [nodes |-> <<>>, added |-> FALSE]
    ELSE IF Head(nodes).id = pid
    THEN [nodes |-> <<[Head(nodes) EXCEPT !.children = Append(@, newNode)]>>
                        \o Tail(nodes),
          added |-> TRUE]
    ELSE LET r == AddToParentNode(Head(nodes).children, pid, newNode)
         IN  IF r.added
             THEN [nodes |-> <<[Head(nodes) EXCEPT !.children = r.nodes]>> \o Tail(nodes),
                   added |-> TRUE]
             ELSE LET rest == AddToParentNode(Tail(nodes), pid, newNode)
                  IN  [nodes |-> <<Head(nodes)>> \o rest.nodes, added |-> rest.added]

\* add_to_parent: None pushes at the top level.
AddToParent(nodes, parent, newNode) ==
    IF parent = {} THEN [nodes |-> Append(nodes, newNode), added |-> TRUE]
    ELSE AddToParentNode(nodes, CHOOSE pid \in parent : TRUE, newNode)

\* create_node: a scene's file is written, then the node is added under the
\* parent (nowhere when the parent is not in the tree) and the structure is
\* written.
CreateNode(nodeType, title, parent) ==
    /\ dn.pc = "idle"
    /\ nextUuid <= MaxNodeUuid
    /\ LET id == nextUuid
           file == IF nodeType = "scene" THEN {SceneFileName(id)} ELSE {}
           newNode == [id |-> id, type |-> nodeType, title |-> title,
                       order |-> CountChildren(structure, parent),
                       children |-> <<>>, file |-> file]
       IN  /\ manuscript' = manuscript \cup file
           /\ structure' = AddToParent(structure, parent, newNode).nodes
           /\ nextUuid' = id + 1
    /\ last' = [op |-> "create_node"]
    /\ UNCHANGED <<ioVars, lifeVars, codexVars, seriesCodexVars, projVars, dn>>

\* delete_scene: the manuscript file is removed when it exists.
DeleteScene(file) ==
    /\ dn.pc = "idle"
    /\ manuscript' = manuscript \ {file}
    /\ last' = [op |-> "delete_scene"]
    /\ UNCHANGED <<ioVars, lifeVars, codexVars, seriesCodexVars, projVars, nextUuid, structure, dn>>

\* delete_node, first part: the structure is read and the node is removed
\* from the copy in memory, its subtree's files collected.
DeleteNodeCollect(id) ==
    /\ dn.pc = "idle"
    /\ LET r == DeleteFromTree(structure, id)
       IN  dn' = [pc |-> "files", id |-> id, tree |-> r.nodes, files |-> r.files,
                  deleted |-> {},
                  pre |-> [structure |-> structure, manuscript |-> manuscript]]
    /\ last' = [op |-> "delete_node_started"]
    /\ UNCHANGED <<ioVars, lifeVars, codexVars, seriesCodexVars, projVars, nextUuid, structure, manuscript>>

\* delete_node, the loop "for file in files_to_delete": the next collected
\* file is removed when it exists.
DeleteNodeRemoveFile ==
    /\ dn.pc = "files"
    /\ dn.files # <<>>
    /\ manuscript' = manuscript \ {Head(dn.files)}
    /\ dn' = [dn EXCEPT !.files = Tail(@),
                        !.deleted = @ \cup ({Head(dn.files)} \cap manuscript)]
    /\ UNCHANGED <<ioVars, lifeVars, codexVars, seriesCodexVars, projVars, nextUuid, structure, last>>

\* delete_node, last part: the structure without the node is written.
DeleteNodeWriteStructure ==
    /\ dn.pc = "files"
    /\ dn.files = <<>>
    /\ structure' = dn.tree
    /\ dn' = [pc |-> "idle"]
    /\ last' = [op |-> "delete_node", id |-> dn.id, pre |-> dn.pre]
    /\ UNCHANGED <<ioVars, lifeVars, codexVars, seriesCodexVars, projVars, nextUuid, manuscript>>

\* The application stops in the middle of delete_node: what is on disk stays.
DeleteNodeInterrupted ==
    /\ dn.pc = "files"
    /\ dn' = [pc |-> "idle"]
    /\ last' = [op |-> "delete_node_interrupted", deleted |-> dn.deleted]
    /\ UNCHANGED <<ioVars, lifeVars, codexVars, seriesCodexVars, projVars, nextUuid, structure, manuscript>>

(***************************************************************************)
(* SpecTree: nodes are created and deleted in one project.                 *)
(***************************************************************************)
NextTree ==
    \/ \E t \in NodeTypes, parent \in {{}} \cup {{i} : i \in 1..MaxNodeUuid} :
           CreateNode(t, "Untitled", parent)
    \/ \E i \in 1..MaxNodeUuid : DeleteScene(SceneFileName(i))
    \/ \E i \in 1..MaxNodeUuid : DeleteNodeCollect(i)
    \/ DeleteNodeRemoveFile
    \/ DeleteNodeWriteStructure
    \/ DeleteNodeInterrupted

SpecTree == InitEmpty /\ [][NextTree]_vars

RECURSIVE NodesOfAll(_)

\* Every node of the forest.
NodesOfAll(nodes) ==
    IF nodes = <<>> THEN {}
    ELSE {Head(nodes)} \cup NodesOfAll(Head(nodes).children) \cup NodesOfAll(Tail(nodes))

\* The file names the forest refers to.
ReferencedFiles(nodes) == UNION {n.file : n \in NodesOfAll(nodes)}

\* C8: delete_node(id) on a tree that contains id removes the node and all
\* its descendants from the stored tree and deletes exactly the manuscript
\* files its subtree refers to: the nodes outside the subtree stay, every
\* file of the subtree is gone and every other manuscript file is still
\* there.
C8_DeleteNodeRemovesSubtreeAndItsFiles ==
    (last.op = "delete_node" /\ \E n \in NodesOfAll(last.pre.structure) : n.id = last.id)
        => LET node == CHOOSE n \in NodesOfAll(last.pre.structure) : n.id = last.id
               subtree == NodesOfAll(<<node>>)
               subtreeFiles == ReferencedFiles(<<node>>)
           IN  /\ {n.id : n \in NodesOfAll(structure)} =
                      {n.id : n \in NodesOfAll(last.pre.structure)}
                          \ {n.id : n \in subtree}
               /\ manuscript \cap subtreeFiles = {}
               /\ manuscript = last.pre.manuscript \ subtreeFiles

\* A delete_node that removed a node with a descendant, deleted the
\* descendant's scene file and left another scene and its file in place.
C8_Witness ==
    /\ last.op = "delete_node"
    /\ \E n \in NodesOfAll(last.pre.structure) :
           /\ n.id = last.id
           /\ n.file = {}
           /\ ReferencedFiles(<<n>>) \cap last.pre.manuscript # {}
    /\ ReferencedFiles(structure) \cap manuscript # {}

\* C9: delete_node rewrites the stored structure before it deletes any
\* collected file, so at every intermediate step, and after an interruption,
\* the stored tree refers to no manuscript file that delete_node has deleted.
C9_StoredTreeNeverRefersToDeletedFile ==
    /\ dn.pc = "files" => dn.deleted \cap ReferencedFiles(structure) = {}
    /\ last.op = "delete_node_interrupted"
           => last.deleted \cap ReferencedFiles(structure) = {}

(***************************************************************************)
(* import_series_backup (commands/backup.rs).  A backup is the parsed JSON *)
(* document: a field that may be absent is {} or {value}.  The structure,  *)
(* scene files, snippets and chats of an imported project are written      *)
(* inside its new folder and are not part of the state here.               *)
(***************************************************************************)

\* The longest projects array and codex array of a backup.
MaxBackupProjects == 2

MaxBackupEntries == 2

\* An absent projectId of a codex entry or relation.
NoUuid == 0

\* chrono::Utc::now().format("%Y%m%d%H%M%S") at the time of the import.
Timestamps == {"20250101120000", "20250101120001"}

\* The ids the projects of the backup had where it was exported.
OldProjectIds == {1, 2}

\* A scene file: the fields of its front matter as written, and its body.
SceneFile(id, title, order, body) ==
    [id |-> id, title |-> title, order |-> order, body |-> body]

\* A scene node of a backup, with the file <id>.md.
BackupScene(id, title, order) ==
    [id |-> id, type |-> "scene", title |-> title, order |-> order,
     children |-> <<>>, file |-> {SceneFileName(id)}]

\* The payloads of a backup.  project is payload.get("project") parsed as
\* ProjectMeta, {} when it is absent or does not parse; nodes is the
\* structure tree; sceneFiles is the map from file name to content, the
\* content {} when it is not a JSON string.  The first payload has no
\* project; the second has an act with scene 11 and the scene 12, the file
\* of 11 and a non-string for 12; the third has scene 12 and no file.
BackupPayloads ==
    {[project |-> {}, nodes |-> <<>>, sceneFiles |-> {}],
     [project |-> {[id |-> 1, title |-> "Dune", seriesIndex |-> "Book 1"]},
      nodes |-> <<[id |-> 10, type |-> "act", title |-> "Act", order |-> 0,
                   children |-> <<BackupScene(11, "Untitled", 0)>>, file |-> {}],
                  BackupScene(12, "Say \"hi\"", 1)>>,
      sceneFiles |-> {[name |-> SceneFileName(11),
                       content |-> {SceneFile(11, "Untitled", 0, "Call me")}],
                      [name |-> SceneFileName(12), content |-> {}]}],
     [project |-> {[id |-> 2, title |-> "Dune", seriesIndex |-> "Book 1"]},
      nodes |-> <<BackupScene(12, "Untitled", 0)>>,
      sceneFiles |-> {}]}

\* The codex entries of a backup: of project 1, of project 2 without a
\* category, of no project, and without an id.
BackupEntries ==
    {[id |-> {"e1"}, category |-> {"character"}, projectId |-> 1],
     [id |-> {"e2"}, category |-> {}, projectId |-> 2],
     [id |-> {"e1"}, category |-> {"character"}, projectId |-> NoUuid],
     [id |-> {}, category |-> {"lore"}, projectId |-> 1]}

\* The relations of a backup: of project 1, of project 2, of no project.
BackupRelations ==
    {[id |-> "r1", parentId |-> "e1", childId |-> "e2", projectId |-> i,
      typeId |-> NoneId] : i \in OldProjectIds \cup {NoUuid}}

SeqsUpTo(S, n) == UNION {[1..k -> S] : k \in 0..n}

\* The backups handed to import_series_backup: series backups with a title,
\* and empty documents of the wrong type, without a title or with an empty
\* one.
Backups ==
    [backupType : {"series"},
     title : {{"Saga"}},
     projects : SeqsUpTo(BackupPayloads, MaxBackupProjects),
     codex : SeqsUpTo(BackupEntries, MaxBackupEntries),
     codexRelations : SeqsUpTo(BackupRelations, 1)]
    \cup
    {[backupType |-> t[1], title |-> t[2], projects |-> <<>>, codex |-> <<>>,
      codexRelations |-> <<>>] :
        t \in {<<"project", {"Saga"}>>, <<"series", {}>>, <<"series", {""}>>}}

\* The payloads the loop over projects imports: those before the first one
\* whose project field is absent or does not parse, where the loop returns
\* Err.
ImportedPayloads(projects) ==
    {i \in 1..Len(projects) : \A j \in 1..i : projects[j].project # {}}

\* source_project of payload i.
SourceProject(projects, i) == CHOOSE m \in projects[i].project : TRUE

\* The uuid drawn for payload i: one is drawn for the series, then one for
\* each imported payload.
NewProjectId(firstUuid, i) == firstUuid + i

\* project_id_map after the loop: insert(old, new) for each payload in
\* order, a later insert replacing an earlier one with the same key.
ProjectIdMap(projects, firstUuid) ==
    LET imported == ImportedPayloads(projects)
        olds == {SourceProject(projects, i).id : i \in imported}
        lastOf(old) == CHOOSE i \in imported :
                           /\ SourceProject(projects, i).id = old
                           /\ \A j \in imported :
                                  SourceProject(projects, j).id = old => j <= i
    IN  [old \in olds |-> NewProjectId(firstUuid, lastOf(old))]

\* The remapping left out: the projectId of the backup is kept.
KeepProjectId(map, old) == old

\* The projectId written for a codex entry: the new id when the map has the
\* old one, else the field is left as it is.
RemapEntryProjectId(map, old) ==
    IF old \in DOMAIN map THEN map[old] ELSE old

\* The projectId of a relation left as it is when the map does not have it.
UnmappedProjectIdKept(map, old) ==
    IF old \in DOMAIN map THEN map[old] ELSE old

\* The projectId left in a relation: the new id, or none (the field is
\* removed) when the map does not have the old one.
RemapRelationProjectId(map, old) ==
    IF old \in DOMAIN map THEN map[old] ELSE NoUuid

\* entry.get("category").unwrap_or("lore")
EntryCategory(entry) ==
    IF entry.category = {} THEN "lore" ELSE CHOOSE c \in entry.category : TRUE

\* The codex entries the loop writes: those before the first one without an
\* id, where the loop returns Err.
WrittenEntries(codex) ==
    {k \in 1..Len(codex) : \A j \in 1..k : codex[j].id # {}}

RECURSIVE WriteImportedEntries(_, _, _, _)

\* The loop over codex entries from entry k on: each is written to
\* <category>/<id>.json with its projectId remapped.
WriteImportedEntries(files, codex, k, map) ==
    IF k \notin WrittenEntries(codex) THEN files
    ELSE WriteImportedEntries(
             WriteEntryFile(files,
                 [category |-> EntryCategory(codex[k]),
                  id |-> CHOOSE e \in codex[k].id : TRUE,
                  projectId |-> RemapEntryProjectId(map, codex[k].projectId)]),
             codex, k + 1, map)

\* The relations that parse as CodexRelation after the remapping: those that
\* still have a projectId.
ImportedRelations(raw, map) ==
    SelectSeq([i \in 1..Len(raw) |->
                  [raw[i] EXCEPT !.projectId = RemapRelationProjectId(map, @)]],
              LAMBDA r : r.projectId # NoUuid)

\* restore_scene_files: every entry of the map whose content is a string is
\* written to manuscript/<name>.
RestoreSceneFiles(sceneFiles) ==
    {[name |-> f.name, content |-> CHOOSE c \in f.content : TRUE] :
        f \in {g \in sceneFiles : g.content # {}}}

\* node.title.replace('"', "\\\"")
EscapeQuotes(title) ==
    CASE title = "Say \"hi\"" -> "Say \\\"hi\\\""
      [] OTHER -> title

\* ensure_scene_files_exist without the check that the file is missing.
WritePlaceholderAlways(files, node) ==
    {f \in files : {f.name} # node.file} \cup
        {[name |-> n, content |-> SceneFile(node.id, EscapeQuotes(node.title),
                                            node.order, "")] : n \in node.file}

\* ensure_scene_files_exist, one node: when the node has a file that is not
\* in manuscript/, the placeholder with the node's id, title and order is
\* written there.
EnsureSceneFile(files, node) ==
    IF node.file = {} \/ \E f \in files : {f.name} = node.file
    THEN files
    ELSE files \cup
             {[name |-> n, content |-> SceneFile(node.id, EscapeQuotes(node.title),
                                                 node.order, "")] : n \in node.file}

RECURSIVE EnsureSceneFilesExist(_, _)

\* ensure_scene_files_exist::walk: each node in order, then its children.
EnsureSceneFilesExist(files, nodes) ==
    IF nodes = <<>> THEN files
    ELSE EnsureSceneFilesExist(
             EnsureSceneFilesExist(EnsureSceneFile(files, Head(nodes)),
                                   Head(nodes).children),
             Tail(nodes))

\* The project folder written for payload i: its project.json, its
\* structure.json and its manuscript files.
ImportedProject(projects, i, seriesId, now) ==
    LET source == SourceProject(projects, i)
        at == [dir |-> ProjectsDir, name |-> <<Slugify(source.title), now, i>>]
    IN  [at |-> at, id |-> NewProjectId(seriesId, i), title |-> source.title,
         seriesId |-> seriesId, seriesIndex |-> source.seriesIndex, path |-> at,
         structure |-> projects[i].nodes,
         manuscript |-> EnsureSceneFilesExist(
                            RestoreSceneFiles(projects[i].sceneFiles),
                            projects[i].nodes)]

\* What import_series_backup may write, as it is before the call.
ImportSnapshot ==
    [seriesList |-> seriesList, projectDirs |-> projectDirs,
     registry |-> registry, recent |-> recent,
     seriesCodexFiles |-> seriesCodexFiles, seriesRelations |-> seriesRelations]

\* import_series_backup: the series is created, then each project, then the
\* codex entries, then the relations; an Err leaves what was written.  It
\* is taken while the uuids left suffice for the largest backup.
ImportSeriesBackup(backup, now) ==
    /\ nextUuid + MaxBackupProjects <= MaxUuid
    /\ IF \/ backup.backupType # "series"
          \/ backup.title = {}
          \/ ~ValidProjectTitle(CHOOSE t \in backup.title : TRUE)
       THEN /\ last' = [op |-> "import_series_backup", ok |-> FALSE,
                        pre |-> ImportSnapshot]
            /\ UNCHANGED <<seriesCodexVars, projVars, nextUuid>>
       ELSE LET seriesId == nextUuid
                imported == ImportedPayloads(backup.projects)
                projectsOk == Cardinality(imported) = Len(backup.projects)
                map == ProjectIdMap(backup.projects, seriesId)
                written == WrittenEntries(backup.codex)
                codexOk == Cardinality(written) = Len(backup.codex)
                newDirs == {ImportedProject(backup.projects, i, seriesId, now) :
                                i \in imported}
            IN  /\ seriesList' = Append(seriesList,
                       NewSeries(seriesId, CHOOSE t \in backup.title : TRUE,
                                 {}, {}, {}, {}))
                /\ nextUuid' = nextUuid + 1 + Cardinality(imported)
                /\ projectDirs' =
                       {d \in projectDirs : \A n \in newDirs : n.at # d.at} \cup newDirs
                /\ recent' = recent \cup {n.at : n \in newDirs}
                /\ registry' = registry \cup {n.at : n \in newDirs}
                /\ seriesCodexFiles' =
                       [seriesCodexFiles EXCEPT ![seriesId] =
                           IF projectsOk
                           THEN WriteImportedEntries(@, backup.codex, 1, map)
                           ELSE @]
                /\ seriesRelations' =
                       [seriesRelations EXCEPT ![seriesId] =
                           IF projectsOk /\ codexOk
                           THEN ImportedRelations(backup.codexRelations, map)
                           ELSE @]
                /\ last' = [op |-> "import_series_backup",
                            ok |-> projectsOk /\ codexOk,
                            pre |-> ImportSnapshot,
                            projects |-> backup.projects,
                            codex |-> backup.codex,
                            codexRelations |-> backup.codexRelations,
                            seriesId |-> seriesId,
                            projectIds |-> [i \in 1..Cardinality(imported) |->
                                               NewProjectId(seriesId, i)]]
    /\ UNCHANGED <<ioVars, codexVars, treeVars, lifeVars>>

(***************************************************************************)
(* SpecImport: series backups are imported next to two existing series.    *)
(***************************************************************************)
\* Two series exist, and in the first the project the backups were exported
\* from.
InitImport ==
    /\ codexFiles = {}
    /\ relations = <<>>
    /\ sceneLinks = <<>>
    /\ entryTags = <<>>
    /\ tags = <<>>
    /\ relationTypes = <<>>
    /\ seriesCodexFiles = [s \in Uuids |-> {}]
    /\ seriesRelations = [s \in Uuids |-> <<>>]
    /\ projectDirs = {[at |-> [dir |-> ProjectsDir, name |-> <<"dune">>], id |-> 3,
                       title |-> "Dune", seriesId |-> 1, seriesIndex |-> "Book 1",
                       path |-> [dir |-> ProjectsDir, name |-> <<"dune">>],
                       structure |-> <<>>, manuscript |-> {}]}
    /\ registry = {[dir |-> ProjectsDir, name |-> <<"dune">>]}
    /\ recent = {[dir |-> ProjectsDir, name |-> <<"dune">>]}
    /\ seriesList = <<NewSeries(1, "Saga", {}, {}, {}, {}),
                    NewSeries(2, "Cycle", {}, {}, {}, {})>>
    /\ nextUuid = 4
    /\ structure = <<>>
    /\ manuscript = {}
    /\ dn = [pc |-> "idle"]
    /\ trash = {}
    /\ deletedSeries = <<>>
    /\ exports = {}
    /\ dsc = [pc |-> "idle"]
    /\ InitIo
    /\ last = [op |-> "init"]

NextImport ==
    \E backup \in Backups, now \in Timestamps : ImportSeriesBackup(backup, now)

SpecImport == InitImport /\ [][NextImport]_vars

\* The ids import generated for the projects of the backup that had the id
\* old.
NewIdsOf(old) ==
    {last.projectIds[i] : i \in {j \in 1..Len(last.projects) :
                                    SourceProject(last.projects, j).id = old}}

\* C10: after import_series_backup succeeds, every imported codex entry
\* whose projectId in the backup is the id of a project of the backup's
\* projects array is stored, at <category>/<id>.json of the new series
\* unless a later entry of the backup has the same path, with the id newly
\* generated for that project in this import and not with the old id.
C10_ImportRemapsEntryProjectId ==
    (last.op = "import_series_backup" /\ last.ok) =>
        \A k \in 1..Len(last.codex) :
            LET entry == last.codex[k]
                samePath(j) == /\ last.codex[j].id = entry.id
                               /\ EntryCategory(last.codex[j]) = EntryCategory(entry)
            IN  (/\ NewIdsOf(entry.projectId) # {}
                 /\ \A j \in (k + 1)..Len(last.codex) : ~samePath(j))
                    => \E f \in seriesCodexFiles[last.seriesId] :
                           /\ {f.id} = entry.id
                           /\ f.category = EntryCategory(entry)
                           /\ f.projectId \in NewIdsOf(entry.projectId)
                           /\ f.projectId # entry.projectId

\* A successful import of two projects and of two entries, one of each
\* project, both stored with a new id.
C10_Witness ==
    /\ last.op = "import_series_backup"
    /\ last.ok
    /\ Len(last.projects) = 2
    /\ \E k \in 1..Len(last.codex) : NewIdsOf(last.codex[k].projectId) # {}
    /\ \E f, g \in seriesCodexFiles[last.seriesId] :
           /\ f.projectId \in NewIdsOf(1)
           /\ g.projectId \in NewIdsOf(2)

\* C11: during import_series_backup a codex entry whose projectId is not a
\* key of the old-to-new remapping table is skipped: after a successful
\* import no file of the imported series' codex carries a projectId other
\* than one of the ids generated for the projects of this import.
C11_ImportSkipsEntriesOfUnknownProjects ==
    (last.op = "import_series_backup" /\ last.ok) =>
        \A f \in seriesCodexFiles[last.seriesId] :
            f.projectId # NoUuid => f.projectId \in Range(last.projectIds)

\* C13: when import_series_backup fails because the backup is malformed,
\* nothing is applied: no series record, project folder, registry or recent
\* entry, codex file or relations file written by the call exists afterwards.
C13_FailedImportAppliesNothing ==
    (last.op = "import_series_backup" /\ ~last.ok) =>
        /\ seriesList = last.pre.seriesList
        /\ projectDirs = last.pre.projectDirs
        /\ registry = last.pre.registry
        /\ recent = last.pre.recent
        /\ seriesCodexFiles = last.pre.seriesCodexFiles
        /\ seriesRelations = last.pre.seriesRelations

\* The project folder import wrote for payload i of the backup.
ImportedProjectOf(i) == CHOOSE d \in projectDirs : d.id = last.projectIds[i]

\* The files of a payload's sceneFiles map whose content is a string.
StringSceneFiles(payload) == {g \in payload.sceneFiles : g.content # {}}

ExportStamps == {"20250101_120000"}

\* output_path: absent, or a file the user chose.
OutputPaths == {{}, {<<"backup.json">>}}

\* The project paths handed to export_project_backup and to delete_project:
\* the folders that exist and one that does not.
ProjectPathInputs ==
    {d.at : d \in projectDirs} \cup {[dir |-> "Missing", name |-> <<"dune">>]}

RECURSIVE FilesOfNodes(_)

\* The file names the nodes of a tree refer to.
FilesOfNodes(nodes) ==
    IF nodes = <<>> THEN {}
    ELSE Head(nodes).file \cup FilesOfNodes(Head(nodes).children)
             \cup FilesOfNodes(Tail(nodes))

\* collect_scene_files that reads no file.
CollectNoSceneFiles(d) == {}

\* collect_scene_files: for every node with a file that can be read in
\* manuscript/, the file name and its content as a JSON string.
CollectBackupSceneFiles(d) ==
    {[name |-> f.name, content |-> {f.content}] :
        f \in {g \in d.manuscript : g.name \in FilesOfNodes(d.structure)}}

\* list_series_codex_entries(series_id, None): the entries under the codex
\* root of the series, none when the directory does not exist.
ListSeriesCodexEntries(seriesId) ==
    IF seriesId \in DOMAIN seriesCodexFiles THEN seriesCodexFiles[seriesId] ELSE {}

\* The backup document export_project_backup builds for the folder d.
ProjectBackup(d) ==
    [backupType |-> "project",
     project |-> [id |-> d.id, title |-> d.title, seriesId |-> d.seriesId,
                  seriesIndex |-> d.seriesIndex, path |-> d.path],
     nodes |-> d.structure,
     sceneFiles |-> CollectBackupSceneFiles(d),
     codex |-> ListSeriesCodexEntries(d.seriesId)]

\* export_project_backup: Err when the folder has no .meta/project.json;
\* else the document is written to output_path, or to
\* <project>/exports/<slug>_backup_<timestamp>.json, replacing what is there.
ExportProjectBackup(at, outputPath, now) ==
    /\ IF \A d \in projectDirs : d.at # at
       THEN /\ last' = [op |-> "export_project_backup", ok |-> FALSE]
            /\ UNCHANGED exports
       ELSE LET d == CHOOSE e \in projectDirs : e.at = at
                finalPath == IF outputPath = {}
                             THEN <<at, Slugify(d.title), now>>
                             ELSE CHOOSE o \in outputPath : TRUE
            IN  /\ exports' = {e \in exports : e.path # finalPath} \cup
                                  {[path |-> finalPath, doc |-> ProjectBackup(d)]}
                /\ last' = [op |-> "export_project_backup", ok |-> TRUE]
    /\ UNCHANGED <<ioVars, codexVars, seriesCodexVars, projVars, nextUuid, treeVars,
                   trash, deletedSeries, dsc>>

\* import_project_backup: whatever the document, the series and the index,
\* it returns Err("Project-level import is disabled. ...") and writes
\* nothing.
ImportProjectBackup(doc, seriesId, seriesIndex) ==
    /\ last' = [op |-> "import_project_backup", ok |-> FALSE, doc |-> doc,
                seriesId |-> seriesId]
    /\ UNCHANGED <<codexVars, seriesCodexVars, restVars>>

(***************************************************************************)
(* SpecProjectBackup: series backups are imported, projects are exported   *)
(* and the exported documents are handed to import_project_backup.         *)
(***************************************************************************)
NextProjectBackup ==
    \/ \E backup \in Backups, now \in Timestamps : ImportSeriesBackup(backup, now)
    \/ \E at \in ProjectPathInputs, outputPath \in OutputPaths, now \in ExportStamps :
           ExportProjectBackup(at, outputPath, now)
    \/ \E e \in exports, s \in Range(seriesList), seriesIndex \in SeriesIndexInputs :
           ImportProjectBackup(e.doc, s.id, seriesIndex)

SpecProjectBackup == InitImport /\ [][NextProjectBackup]_vars

RECURSIVE TreeShape(_)

\* A structure tree without the ids of its nodes and the names of their
\* files (a file is named after the id of its node).
TreeShape(nodes) ==
    [i \in 1..Len(nodes) |->
        [type |-> nodes[i].type, title |-> nodes[i].title, order |-> nodes[i].order,
         hasFile |-> nodes[i].file # {}, children |-> TreeShape(nodes[i].children)]]

\* C12: a document written by export_project_backup, handed to
\* import_project_backup with the series of the exported project, is
\* imported: a project with a new id exists in that series whose structure
\* tree is the exported one, ids aside, and every codex entry of the
\* exported project is in the series codex with the new project id.
C12_ProjectBackupRoundTrip ==
    (/\ last.op = "import_project_backup"
     /\ last.seriesId = last.doc.project.seriesId) =>
        /\ last.ok
        /\ \E d \in projectDirs :
               /\ d.id # last.doc.project.id
               /\ d.seriesId = last.seriesId
               /\ TreeShape(d.structure) = TreeShape(last.doc.nodes)
               /\ \A c \in last.doc.codex :
                      c.projectId = last.doc.project.id =>
                          \E f \in ListSeriesCodexEntries(last.seriesId) :
                              /\ f.id = c.id
                              /\ f.projectId = d.id

(***************************************************************************)
(* The trash (commands/project.rs): delete_project moves a project folder  *)
(* to <app>/Trash/<folder>_<timestamp>, restore_trashed_project moves it   *)
(* back.  A trashed folder is the record of the project folder with at     *)
(* where it is in the trash.                                               *)
(***************************************************************************)

\* get_projects_trash_dir(): <app>/Trash
TrashDir == "Trash"

\* chrono::Utc::now().format("%Y%m%d_%H%M%S") when a project is deleted or
\* restored.
TrashStamps == {"20250101_120000", "20250101_120001"}

\* trash_dir.join(format!("{}_{}", folder_name, timestamp))
TrashPath(path, now) == [dir |-> TrashDir, name |-> <<path.name, now>>]

\* path.exists() of a project path: a folder is there.
PathExists(path) == \E d \in projectDirs : d.at = path

\* delete_project, as the state it leaves and its result: Err when nothing
\* is at the path, and when the rename fails because the trash already has
\* a folder of that name; else the folder is moved and the path is taken
\* out of recent.json and of the registry.
DeleteProjectResult(path, now) ==
    LET trashAt == TrashPath(path, now)
        unchanged == [projectDirs |-> projectDirs, trash |-> trash,
                      recent |-> recent, registry |-> registry]
    IN  IF ~PathExists(path)
        THEN unchanged @@ [ok |-> FALSE, moved |-> {}]
        ELSE IF \E t \in trash : t.at = trashAt
        THEN unchanged @@ [ok |-> FALSE, moved |-> {}]
        ELSE LET d == CHOOSE e \in projectDirs : e.at = path
             IN  [projectDirs |-> projectDirs \ {d},
                  trash |-> trash \cup {[d EXCEPT !.at = trashAt]},
                  recent |-> recent \ {path},
                  registry |-> registry \ {path},
                  ok |-> TRUE, moved |-> {d}]

DeleteProject(path, now) ==
    /\ LET res == DeleteProjectResult(path, now)
       IN  /\ projectDirs' = res.projectDirs
           /\ trash' = res.trash
           /\ recent' = res.recent
           /\ registry' = res.registry
           /\ last' = [op |-> "delete_project", ok |-> res.ok, path |-> path,
                       moved |-> res.moved, pre |-> projectDirs,
                       preTrash |-> trash]
    /\ UNCHANGED <<ioVars, codexVars, seriesCodexVars, seriesList, nextUuid, treeVars,
                   deletedSeries, exports, dsc>>

\* list_project_trash: one TrashedProject for each folder of the trash whose
\* .meta/project.json can be read.
ListProjectTrash ==
    {[id |-> t.id, title |-> t.title, originalPath |-> t.path, trashPath |-> t.at] :
        t \in trash}

\* parent.join(format!("{}_restored_{}", base_name, timestamp))
RestoredPath(path, now) ==
    [dir |-> path.dir, name |-> path.name \o <<"_restored_", now>>]

\* The original path whether or not a folder is there.
PreferredTarget(project, now) == project.path

\* The folder restore_trashed_project moves a trashed project to: the path
\* stored in its project.json, or <that path>_restored_<timestamp> when a
\* folder is there.
RestoreTarget(project, now) ==
    IF PathExists(project.path) THEN RestoredPath(project.path, now)
    ELSE project.path

\* restore_trashed_project: Err when the trash has no such folder, and when
\* the rename fails because a folder is at the target; else the folder is
\* moved, its project.json gets the new path, and the path is added to
\* recent.json and to the registry.
RestoreTrashedProject(trashPath, now) ==
    /\ IF \A t \in trash : t.at # trashPath
       THEN /\ last' = [op |-> "restore_trashed_project", ok |-> FALSE,
                        source |-> {}, occupied |-> FALSE, suffixTaken |-> FALSE,
                        now |-> now]
            /\ UNCHANGED <<projectDirs, trash, recent, registry>>
       ELSE LET t == CHOOSE e \in trash : e.at = trashPath
                target == RestoreTarget(t, now)
            IN  IF PathExists(target)
                THEN /\ last' = [op |-> "restore_trashed_project", ok |-> FALSE,
                                 source |-> {t}, occupied |-> PathExists(t.path),
                                 suffixTaken |-> PathExists(RestoredPath(t.path, now)),
                                 now |-> now]
                     /\ UNCHANGED <<projectDirs, trash, recent, registry>>
                ELSE /\ projectDirs' = projectDirs \cup
                            {[t EXCEPT !.at = target, !.path = target]}
                     /\ trash' = trash \ {t}
                     /\ recent' = recent \cup {target}
                     /\ registry' = registry \cup {target}
                     /\ last' = [op |-> "restore_trashed_project", ok |-> TRUE,
                                 source |-> {t}, occupied |-> PathExists(t.path),
                                 suffixTaken |-> PathExists(RestoredPath(t.path, now)),
                                 now |-> now]
    /\ UNCHANGED <<ioVars, codexVars, seriesCodexVars, seriesList, nextUuid, treeVars,
                   deletedSeries, exports, dsc>>

\* The trash paths handed to restore_trashed_project: the folders of the
\* trash and one that is not there.
TrashPathInputs ==
    {t.at : t \in trash} \cup
        {TrashPath([dir |-> ProjectsDir, name |-> <<"">>], "20250101_120000")}

(***************************************************************************)
(* SpecTrash: in two series, projects titled "Dune" are created in         *)
(* <app>/Projects, deleted and restored, next to one that exists.          *)
(***************************************************************************)
\* Two series exist, and in the first a project with one scene; five uuids
\* have been drawn.
InitTrash ==
    /\ codexFiles = {}
    /\ relations = <<>>
    /\ sceneLinks = <<>>
    /\ entryTags = <<>>
    /\ tags = <<>>
    /\ relationTypes = <<>>
    /\ seriesCodexFiles = [s \in Uuids |-> {}]
    /\ seriesRelations = [s \in Uuids |-> <<>>]
    /\ projectDirs = {[at |-> [dir |-> ProjectsDir, name |-> <<"dune">>], id |-> 3,
                       title |-> "Dune", seriesId |-> 1, seriesIndex |-> "Book 1",
                       path |-> [dir |-> ProjectsDir, name |-> <<"dune">>],
                       structure |-> <<BackupScene(4, "Untitled", 0)>>,
                       manuscript |-> {[name |-> SceneFileName(4),
                                        content |-> SceneFile(4, "Untitled", 0,
                                                              "Call me")]}]}
    /\ registry = {[dir |-> ProjectsDir, name |-> <<"dune">>]}
    /\ recent = {[dir |-> ProjectsDir, name |-> <<"dune">>]}
    /\ seriesList = <<NewSeries(1, "Saga", {}, {}, {}, {}),
                    NewSeries(2, "Cycle", {}, {}, {}, {})>>
    /\ nextUuid = 6
    /\ structure = <<>>
    /\ manuscript = {}
    /\ dn = [pc |-> "idle"]
    /\ trash = {}
    /\ deletedSeries = <<>>
    /\ exports = {}
    /\ dsc = [pc |-> "idle"]
    /\ InitIo
    /\ last = [op |-> "init"]

NextTrash ==
    \/ \E s \in {1, 2}, i \in SeriesIndexInputs :
           CreateProject("Dune", ProjectsDir, s, i)
    \/ \E path \in ProjectPathInputs, now \in TrashStamps : DeleteProject(path, now)
    \/ \E trashPath \in TrashPathInputs, now \in TrashStamps :
           RestoreTrashedProject(trashPath, now)

SpecTrash == InitTrash /\ [][NextTrash]_vars

\* C16: after every mutation of the project set, each series has at most
\* one listed project with a given seriesIndex.
C16_SeriesIndexUniqueAfterEveryMutation ==
    \A d \in ListedProjects :
        Cardinality({e \in ListedProjects :
                        e.seriesId = d.seriesId /\ e.seriesIndex = d.seriesIndex}) = 1

\* C19: a delete_project that succeeds moves the folder, with its
\* project.json, structure and manuscript as they were, into the trash and
\* touches no other folder; the path is in neither recent.json nor the
\* registry, the project is not listed by list_projects and is listed by
\* list_project_trash.  A restore_trashed_project of a folder of the trash
\* succeeds unless the original path and the '_restored_<timestamp>' path
\* are both occupied; it leaves the folder at the original path, or at the
\* '_restored_<timestamp>' path when the original is occupied, listed, with
\* the same id, title, seriesId, seriesIndex and contents and with the
\* stored path equal to where it is.
C19_DeleteMovesToTrashRestoreMovesBack ==
    /\ (last.op = "delete_project" /\ last.ok) =>
           \E d \in last.moved :
               /\ d \in last.pre
               /\ d.at = last.path
               /\ projectDirs = last.pre \ {d}
               /\ \E t \in trash :
                      /\ t.at.dir = TrashDir
                      /\ [t EXCEPT !.at = d.at] = d
                      /\ t \notin last.preTrash
                      /\ trash = last.preTrash \cup {t}
               /\ last.path \notin recent \cup registry
               /\ \A e \in ListedProjects : e.id # d.id
               /\ \E x \in ListProjectTrash :
                      x.id = d.id /\ x.title = d.title /\ x.originalPath = d.path
    /\ last.op = "restore_trashed_project" =>
           \A t \in last.source :
               LET expected == IF last.occupied THEN RestoredPath(t.path, last.now)
                               ELSE t.path
               IN  /\ (~last.occupied \/ ~last.suffixTaken) => last.ok
                   /\ last.ok =>
                          /\ [t EXCEPT !.at = expected, !.path = expected]
                                 \in ListedProjects
                          /\ \A e \in projectDirs : e.id = t.id => e.at = expected
                          /\ t \notin trash

\* The project with a scene was deleted, its path was taken by a new
\* project, and it has been restored to the '_restored_<timestamp>' path
\* with its scene file.
C19_Witness ==
    /\ last.op = "restore_trashed_project"
    /\ last.ok
    /\ last.occupied
    /\ \E d \in ListedProjects :
           /\ d.id = 3
           /\ d.manuscript # {}
           /\ d.at = RestoredPath([dir |-> ProjectsDir, name |-> <<"dune">>], last.now)
           /\ d.path = d.at
    /\ \E t \in last.source : t.id = 3

(***************************************************************************)
(* delete_series and delete_series_cascade (commands/series.rs).           *)
(***************************************************************************)

\* The series ids handed to the two commands: the two series and an id no
\* series has.
DeleteSeriesIdInputs == {1, 2, MaxUuid}

\* No project counts as linked.
NoLinkedProjects(seriesId) == {}

\* list_projects() filtered by project.series_id == series_id
LinkedProjects(seriesId) == {d \in ListedProjects : d.seriesId = seriesId}

\* The record without the description of the series.
MarkSeriesDeletedWithoutDescription(records, series) ==
    <<[oldSeriesId |-> series.id, title |-> series.title,
       description |-> {}, author |-> series.author,
       genre |-> series.genre, status |-> series.status, restoredSeriesId |-> {}]>>
        \o SelectSeq(records, LAMBDA r : r.oldSeriesId # series.id)

\* mark_series_deleted: the records of other series ids are kept, and the
\* record of this one is inserted in front.
MarkSeriesDeleted(records, series) ==
    <<[oldSeriesId |-> series.id, title |-> series.title,
       description |-> series.description, author |-> series.author,
       genre |-> series.genre, status |-> series.status, restoredSeriesId |-> {}]>>
        \o SelectSeq(records, LAMBDA r : r.oldSeriesId # series.id)

\* What delete_series may write, as it is before the call.
SeriesSnapshot ==
    [seriesList |-> seriesList, deletedSeries |-> deletedSeries,
     seriesCodexFiles |-> seriesCodexFiles, seriesRelations |-> seriesRelations,
     projectDirs |-> projectDirs, trash |-> trash]

\* delete_series, as the state it leaves and its result: list_projects
\* rewrites the registry and recent.json; with a linked project it is Err;
\* else the series, when it is in series.json, is recorded as deleted and
\* taken out, and the directory of the series is removed.
DeleteSeriesResult(seriesId) ==
    LET series == SelectSeq(seriesList, LAMBDA x : x.id = seriesId)
    IN  IF LinkedProjects(seriesId) # {}
        THEN [ok |-> FALSE, seriesList |-> seriesList, deletedSeries |-> deletedSeries,
              seriesCodexFiles |-> seriesCodexFiles,
              seriesRelations |-> seriesRelations,
              registry |-> RegistryAfterList, recent |-> RecentAfterList]
        ELSE [ok |-> TRUE,
              seriesList |-> SelectSeq(seriesList, LAMBDA x : x.id # seriesId),
              deletedSeries |-> IF series = <<>> THEN deletedSeries
                                ELSE MarkSeriesDeleted(deletedSeries, series[1]),
              seriesCodexFiles |->
                  [x \in DOMAIN seriesCodexFiles |->
                      IF x = seriesId THEN {} ELSE seriesCodexFiles[x]],
              seriesRelations |->
                  [x \in DOMAIN seriesRelations |->
                      IF x = seriesId THEN <<>> ELSE seriesRelations[x]],
              registry |-> RegistryAfterList, recent |-> RecentAfterList]

DeleteSeries(seriesId) ==
    /\ dsc.pc = "idle"
    /\ LET res == DeleteSeriesResult(seriesId)
       IN  /\ seriesList' = res.seriesList
           /\ deletedSeries' = res.deletedSeries
           /\ seriesCodexFiles' = res.seriesCodexFiles
           /\ seriesRelations' = res.seriesRelations
           /\ registry' = res.registry
           /\ recent' = res.recent
           /\ last' = [op |-> "delete_series", ok |-> res.ok, seriesId |-> seriesId,
                       linked |-> {d.id : d \in {e \in ListedProjects :
                                                    e.seriesId = seriesId}},
                       pre |-> SeriesSnapshot]
    /\ UNCHANGED <<ioVars, codexVars, projectDirs, nextUuid, treeVars, trash, exports, dsc>>

\* The orders in which a set can be listed.
OrdersOf(S) ==
    {q \in [1..Cardinality(S) -> S] : \A i, j \in 1..Cardinality(S) :
                                          q[i] = q[j] => i = j}

\* No project is handed to delete_project.
NoCascadeProjects(seriesId) == {}

\* projects_to_delete: the listed projects of the series.
CascadeProjects(seriesId) == LinkedProjects(seriesId)

\* delete_series_cascade, step 1: list_projects, and the path fields of the
\* projects of the series in the order of the list; delete_count is their
\* number.
DeleteSeriesCascadeList(seriesId) ==
    /\ dsc.pc = "idle"
    /\ \E queue \in OrdersOf({d.path : d \in CascadeProjects(seriesId)}) :
           dsc' = [pc |-> "projects", seriesId |-> seriesId, queue |-> queue,
                   count |-> Len(queue), pre |-> SeriesSnapshot]
    /\ registry' = RegistryAfterList
    /\ recent' = RecentAfterList
    /\ last' = [op |-> "delete_series_cascade", done |-> FALSE]
    /\ UNCHANGED <<ioVars, codexVars, seriesCodexVars, projectDirs, seriesList, nextUuid,
                   treeVars, trash, deletedSeries, exports>>

\* Step 2, once for each project: delete_project(project.path); its Err is
\* the Err of the command.
DeleteSeriesCascadeProject(now) ==
    /\ dsc.pc = "projects"
    /\ dsc.queue # <<>>
    /\ LET res == DeleteProjectResult(Head(dsc.queue), now)
       IN  /\ projectDirs' = res.projectDirs
           /\ trash' = res.trash
           /\ recent' = res.recent
           /\ registry' = res.registry
           /\ IF res.ok
              THEN /\ dsc' = [dsc EXCEPT !.queue = Tail(@)]
                   /\ UNCHANGED last
              ELSE /\ dsc' = [pc |-> "idle"]
                   /\ last' = [op |-> "delete_series_cascade", done |-> TRUE,
                               ok |-> FALSE, failed |-> "delete_project",
                               seriesId |-> dsc.seriesId, count |-> dsc.count,
                               pre |-> dsc.pre]
    /\ UNCHANGED <<ioVars, codexVars, seriesCodexVars, seriesList, nextUuid, treeVars,
                   deletedSeries, exports>>

\* Step 3: delete_series(series_id); its Err is the Err of the command, else
\* Ok(delete_count).
DeleteSeriesCascadeSeries ==
    /\ dsc.pc = "projects"
    /\ dsc.queue = <<>>
    /\ LET res == DeleteSeriesResult(dsc.seriesId)
       IN  /\ seriesList' = res.seriesList
           /\ deletedSeries' = res.deletedSeries
           /\ seriesCodexFiles' = res.seriesCodexFiles
           /\ seriesRelations' = res.seriesRelations
           /\ registry' = res.registry
           /\ recent' = res.recent
           /\ last' = [op |-> "delete_series_cascade", done |-> TRUE,
                       ok |-> res.ok, failed |-> IF res.ok THEN "" ELSE "delete_series",
                       seriesId |-> dsc.seriesId, count |-> dsc.count,
                       pre |-> dsc.pre]
    /\ dsc' = [pc |-> "idle"]
    /\ UNCHANGED <<ioVars, codexVars, projectDirs, nextUuid, treeVars, trash, exports>>

(***************************************************************************)
(* SpecDeleteSeries: two series with their codex, two projects in the      *)
(* first; projects are deleted and restored, series are deleted with and   *)
(* without the cascade.  The commands are synchronous, so no other command *)
(* runs between the steps of a cascade.                                    *)
(***************************************************************************)
InitDeleteSeries ==
    /\ codexFiles = {}
    /\ relations = <<>>
    /\ sceneLinks = <<>>
    /\ entryTags = <<>>
    /\ tags = <<>>
    /\ relationTypes = <<>>
    /\ seriesCodexFiles = [s \in Uuids |->
                              IF s \in {1, 2}
                              THEN {[category |-> "character", id |-> "e1",
                                     projectId |-> NoUuid]}
                              ELSE {}]
    /\ seriesRelations = [s \in Uuids |-> <<>>]
    /\ projectDirs = {[at |-> [dir |-> b, name |-> <<"dune">>],
                       id |-> IF b = ProjectsDir THEN 3 ELSE 4,
                       title |-> "Dune", seriesId |-> 1,
                       seriesIndex |-> IF b = ProjectsDir THEN "Book 1" ELSE "Book 2",
                       path |-> [dir |-> b, name |-> <<"dune">>],
                       structure |-> <<>>, manuscript |-> {}] : b \in ExistingBaseDirs}
    /\ registry = {[dir |-> b, name |-> <<"dune">>] : b \in ExistingBaseDirs}
    /\ recent = {[dir |-> b, name |-> <<"dune">>] : b \in ExistingBaseDirs}
    /\ seriesList = <<NewSeries(1, "Saga", {}, {}, {}, {}),
                    NewSeries(2, "Cycle", {}, {}, {}, {})>>
    /\ nextUuid = 5
    /\ structure = <<>>
    /\ manuscript = {}
    /\ dn = [pc |-> "idle"]
    /\ trash = {}
    /\ deletedSeries = <<>>
    /\ exports = {}
    /\ dsc = [pc |-> "idle"]
    /\ InitIo
    /\ last = [op |-> "init"]

NextDeleteSeries ==
    \/ \E s \in DeleteSeriesIdInputs : DeleteSeries(s)
    \/ \E s \in DeleteSeriesIdInputs : DeleteSeriesCascadeList(s)
    \/ \E now \in TrashStamps : DeleteSeriesCascadeProject(now)
    \/ DeleteSeriesCascadeSeries
    \/ /\ dsc.pc = "idle"
       /\ \E path \in ProjectPathInputs, now \in TrashStamps : DeleteProject(path, now)
    \/ /\ dsc.pc = "idle"
       /\ \E trashPath \in TrashPathInputs, now \in TrashStamps :
              RestoreTrashedProject(trashPath, now)

SpecDeleteSeries == InitDeleteSeries /\ [][NextDeleteSeries]_vars

\* C17: delete_series(s) returns an error exactly when a listed project has
\* seriesId = s; then the series list, the deleted-series registry, the
\* codex and the relations of every series, the project folders and the
\* trash are as before.  When it returns Ok no series has the id s, and a
\* series that had it is recorded as deleted and its codex is gone.
C17_DeleteSeriesRefusedWhileLinked ==
    last.op = "delete_series" =>
        /\ last.linked # {} <=> ~last.ok
        /\ ~last.ok =>
               /\ seriesList = last.pre.seriesList
               /\ deletedSeries = last.pre.deletedSeries
               /\ seriesCodexFiles = last.pre.seriesCodexFiles
               /\ seriesRelations = last.pre.seriesRelations
               /\ projectDirs = last.pre.projectDirs
               /\ trash = last.pre.trash
        /\ last.ok =>
               /\ \A x \in Range(seriesList) : x.id # last.seriesId
               /\ \A d \in ListedProjects : d.seriesId # last.seriesId
               /\ seriesCodexFiles[last.seriesId] = {}
               /\ \A x \in Range(last.pre.seriesList) :
                      x.id = last.seriesId =>
                          /\ deletedSeries # <<>>
                          /\ deletedSeries[1].oldSeriesId = x.id
                          /\ deletedSeries[1].title = x.title

\* delete_series was refused for a series with a codex and two linked
\* projects, after the other series had been deleted.
C17_Witness ==
    /\ last.op = "delete_series"
    /\ ~last.ok
    /\ Cardinality(last.linked) = 2
    /\ seriesCodexFiles[last.seriesId] # {}
    /\ Len(seriesList) = 1
    /\ deletedSeries # <<>>

\* C18: while delete_series_cascade(s) is between its steps, and after it
\* has failed, the series list, the deleted-series registry and the codex
\* and relations of every series are as they were when it started, as long
\* as a listed project has seriesId = s.  It fails only when a
\* delete_project fails.  When it returns Ok(n), n folders have been moved
\* to the trash, all of them projects of s that were listed, unchanged but
\* for where they are; their paths are in neither recent.json nor the
\* registry, no listed project has seriesId = s, no series has the id s and
\* its codex is gone.
C18_CascadeTrashesProjectsBeforeSeries ==
    /\ (\/ dsc.pc = "projects"
        \/ (last.op = "delete_series_cascade" /\ last.done /\ ~last.ok)) =>
           LET s == IF dsc.pc = "projects" THEN dsc.seriesId ELSE last.seriesId
               pre == IF dsc.pc = "projects" THEN dsc.pre ELSE last.pre
           IN  (\E d \in ListedProjects : d.seriesId = s) =>
                   /\ seriesList = pre.seriesList
                   /\ deletedSeries = pre.deletedSeries
                   /\ seriesCodexFiles = pre.seriesCodexFiles
                   /\ seriesRelations = pre.seriesRelations
    /\ (last.op = "delete_series_cascade" /\ last.done /\ ~last.ok) =>
           last.failed = "delete_project"
    /\ (last.op = "delete_series_cascade" /\ last.done /\ last.ok) =>
           /\ last.count = Cardinality(trash \ last.pre.trash)
           /\ last.pre.trash \subseteq trash
           /\ \A t \in trash \ last.pre.trash :
                  /\ t.seriesId = last.seriesId
                  /\ \E d \in last.pre.projectDirs \ projectDirs :
                         /\ [t EXCEPT !.at = d.at] = d
                         /\ d.path \notin recent \cup registry
           /\ projectDirs \subseteq last.pre.projectDirs
           /\ \A d \in ListedProjects : d.seriesId # last.seriesId
           /\ \A x \in Range(seriesList) : x.id # last.seriesId
           /\ seriesCodexFiles[last.seriesId] = {}

\* A cascade on a series with a codex and two listed projects has returned
\* Ok(2).
C18_Witness ==
    /\ last.op = "delete_series_cascade"
    /\ last.done
    /\ last.ok
    /\ last.count = 2
    /\ last.pre.seriesCodexFiles[last.seriesId] # {}
    /\ Len(seriesList) < Len(last.pre.seriesList)

(***************************************************************************)
(* SpecSeriesEntries: the entry files of two series; entries are saved     *)
(* under either category with either content, and deleted.                 *)
(***************************************************************************)
NextSeriesEntries ==
    \/ \E s \in {1, 2}, e \in EntryIds, c \in Categories, p \in {NoUuid, 1} :
           SaveSeriesCodexEntry(s, [category |-> c, id |-> e, projectId |-> p])
    \/ \E s \in {1, 2}, e \in EntryIds, c \in Categories :
           DeleteSeriesCodexEntry(s, e, c)

SpecSeriesEntries == InitEmpty /\ [][NextSeriesEntries]_vars

\* C20: whatever save_series_codex_entry calls were made, each series codex
\* has at most one file named <id>.json for each id; after a call that file
\* is the one just saved, under the category and with the content of the
\* call; and the same call made again would leave the codex as it is.
C20_OneFilePerSavedSeriesEntry ==
    /\ \A s \in {1, 2}, e \in EntryIds :
           Cardinality(FilesNamed(seriesCodexFiles[s], e)) <= 1
    /\ last.op = "save_series_codex_entry" =>
           /\ FilesNamed(seriesCodexFiles[last.series], last.entry.id) = {last.entry}
           /\ SavedSeriesEntryFiles(seriesCodexFiles[last.series], last.entry)
                  = seriesCodexFiles[last.series]

\* An entry saved under one category and then under the other, with the
\* other content, next to the file of another entry.
C20_Witness ==
    /\ last.op = "save_series_codex_entry"
    /\ last.entry = [category |-> "lore", id |-> "e1", projectId |-> 1]
    /\ FilesNamed(seriesCodexFiles[last.series], "e2") # {}
    /\ \E f \in seriesCodexFiles[3 - last.series] :
           f.id = "e1" /\ f.category = "character" /\ f.projectId = NoUuid

(***************************************************************************)
(* The delete cascades with a file-system call that fails                  *)
(* (commands/codex.rs, commands/series.rs).  A fault names the call of     *)
(* the cascade that returns an io::Error; every call before it succeeds.   *)
(* read_json_vec reads a file cut short as the empty vector, so a file     *)
(* left cut short by a failed fs::write is the empty sequence here.        *)
(***************************************************************************)

\* The calls of delete_codex_entry that can fail, in their order, and none.
Faults ==
    <<"remove_file", "read_relations", "write_relations", "read_scene_links",
      "write_scene_links", "read_entry_tags", "write_entry_tags", "none">>

\* The place of a fault in the cascade.
Stage(fault) == CHOOSE i \in 1..Len(Faults) : Faults[i] = fault

\* The state a delete_codex_entry(e, c) without a fault leaves from snap.
AfterDeleteCodexEntry(snap, e, c) ==
    [snap EXCEPT !.codexFiles = RemoveEntryFiles(@, e, c),
                 !.relations = RetainRelationsNotReferencing(@, e),
                 !.sceneLinks = RetainLinksNotReferencing(@, e),
                 !.entryTags = RetainEntryTagsNotOfEntry(@, e)]

\* One collection after the cascade stopped at stage st: rewritten when its
\* write, the stage w, came before; as the failed fs::write left it at that
\* stage (untouched when the file could not be opened, cut short when
\* File::create had truncated it); else not yet written.
CollectionAfterFault(old, new, w, st, cut) ==
    IF st > w THEN new
    ELSE IF st = w /\ cut THEN <<>>
    ELSE old

\* delete_codex_entry with the fault: the files of removed are those the
\* walk had removed when remove_file failed, and a read fails on a file
\* that holds rows.  It returns Ok only without a fault.
DeleteCodexEntryWithFault(e, c, fault, removed, cut) ==
    LET st == Stage(fault)
    IN  /\ st = 1 => FilesNamed(codexFiles, e) # {}
        /\ removed \subseteq FilesNamed(codexFiles, e)
        /\ removed # FilesNamed(codexFiles, e) \/ removed = {}
        /\ st # 1 => removed = {}
        /\ st = 2 => relations # <<>>
        /\ st = 4 => sceneLinks # <<>>
        /\ st = 6 => entryTags # <<>>
        /\ cut => st \in {3, 5, 7}
        /\ codexFiles' = IF st = 1 THEN codexFiles \ removed
                         ELSE RemoveEntryFiles(codexFiles, e, c)
        /\ relations' = CollectionAfterFault(relations,
                            RetainRelationsNotReferencing(relations, e), 3, st, cut)
        /\ sceneLinks' = CollectionAfterFault(sceneLinks,
                             RetainLinksNotReferencing(sceneLinks, e), 5, st, cut)
        /\ entryTags' = CollectionAfterFault(entryTags,
                            RetainEntryTagsNotOfEntry(entryTags, e), 7, st, cut)
        /\ last' = [op |-> "delete_codex_entry", id |-> e, category |-> c,
                    fault |-> fault, ok |-> fault = "none", pre |-> CodexSnapshot]
        /\ UNCHANGED <<tags, relationTypes, seriesCodexVars, restVars>>

\* delete_series_codex_entry with the fault.  The relations are read with
\* list_series_codex_relations(..).unwrap_or_default(): when the read fails
\* the cascade goes on with the empty vector and writes it.
DeleteSeriesCodexEntryWithFault(s, e, c, fault, removed, cut) ==
    LET st == Stage(fault)
        files == seriesCodexFiles[s]
        read == IF st = 2 THEN <<>> ELSE seriesRelations[s]
        new == RetainRelationsNotReferencing(read, e)
    IN  /\ st \in {1, 2, 3, Len(Faults)}
        /\ st = 1 => FilesNamed(files, e) # {}
        /\ removed \subseteq FilesNamed(files, e)
        /\ removed # FilesNamed(files, e) \/ removed = {}
        /\ st # 1 => removed = {}
        /\ st = 2 => seriesRelations[s] # <<>>
        /\ cut => st = 3
        /\ seriesCodexFiles' =
               [seriesCodexFiles EXCEPT
                   ![s] = IF st = 1 THEN files \ removed
                          ELSE RemoveEntryFiles(files, e, c)]
        /\ seriesRelations' =
               [seriesRelations EXCEPT
                   ![s] = IF st = 1 THEN @
                          ELSE IF st = 3 THEN (IF cut THEN <<>> ELSE @)
                          ELSE new]
        /\ last' = [op |-> "delete_series_codex_entry", id |-> e, category |-> c,
                    fault |-> fault, ok |-> st \in {2, Len(Faults)},
                    pre |-> [CodexSnapshot EXCEPT !.codexFiles = files,
                                                  !.relations = seriesRelations[s]]]
        /\ UNCHANGED <<codexVars, restVars>>

(***************************************************************************)
(* SpecDeleteFaults: the codex of a project; entries, a relation, a scene  *)
(* link and an entry-tag row are saved, and entries are deleted while a    *)
(* call of the cascade may fail.                                           *)
(***************************************************************************)
NextDeleteFaults ==
    \/ \E e \in EntryIds, c \in Categories :
           SaveCodexEntry([category |-> c, id |-> e, projectId |-> 1])
    \/ \E p \in EntryIds, c \in EntryIds :
           SaveCodexRelation([id |-> "r1", parentId |-> p, childId |-> c,
                              projectId |-> 1, typeId |-> NoneId])
    \/ \E id \in LinkIds, s \in SceneIds, e \in EntryIds :
           SaveSceneCodexLink([id |-> id, sceneId |-> s, codexId |-> e])
    \/ \E id \in EntryTagIds, e \in EntryIds, t \in TagIds :
           SaveCodexEntryTag([id |-> id, entryId |-> e, tagId |-> t])
    \/ \E e \in EntryIds, c \in Categories, i \in 1..Len(Faults),
          removed \in SUBSET codexFiles, cut \in BOOLEAN :
           DeleteCodexEntryWithFault(e, c, Faults[i], removed, cut)

SpecDeleteFaults == InitEmpty /\ [][NextDeleteFaults]_vars

(***************************************************************************)
(* SpecSeriesDeleteFaults: the same for the codex of series 1, whose       *)
(* cascade has the relations only.                                         *)
(***************************************************************************)
NextSeriesDeleteFaults ==
    \/ \E e \in EntryIds, c \in Categories :
           SaveSeriesCodexEntry(1, [category |-> c, id |-> e, projectId |-> 1])
    \/ \E id \in RelationIds, p \in EntryIds, c \in EntryIds :
           SaveSeriesCodexRelation(1, [id |-> id, parentId |-> p, childId |-> c,
                                       projectId |-> 1, typeId |-> NoneId])
    \/ \E e \in EntryIds, c \in Categories, i \in 1..Len(Faults),
          removed \in SUBSET seriesCodexFiles[1], cut \in BOOLEAN :
           DeleteSeriesCodexEntryWithFault(1, e, c, Faults[i], removed, cut)

SpecSeriesDeleteFaults == InitEmpty /\ [][NextSeriesDeleteFaults]_vars

\* C21: when a call of a delete cascade fails, delete_codex_entry and
\* delete_series_codex_entry return an error; and when the call that fails
\* is the read of a collection, that collection is left as it was.
C21_CascadeFailureIsAnError ==
    (/\ last.op \in {"delete_codex_entry", "delete_series_codex_entry"}
     /\ last.fault # "none") =>
        /\ ~last.ok
        /\ last.fault = "read_relations" =>
               IF last.op = "delete_codex_entry"
               THEN relations = last.pre.relations
               ELSE seriesRelations[1] = last.pre.relations
        /\ last.fault = "read_scene_links" => sceneLinks = last.pre.sceneLinks
        /\ last.fault = "read_entry_tags" => entryTags = last.pre.entryTags

\* C22: from the state a failed delete_codex_entry(e) leaves, a
\* delete_codex_entry(e) that succeeds reaches the state one successful call
\* reaches from the state before the failed one; and after a successful
\* call another one changes nothing.
C22_DeleteEntryConvergesWhenRerun ==
    last.op = "delete_codex_entry" =>
        AfterDeleteCodexEntry(CodexSnapshot, last.id, last.category)
            = AfterDeleteCodexEntry(last.pre, last.id, last.category)

(***************************************************************************)
(* SpecTags: two tags and two entry-tag rows over a project codex that     *)
(* holds an entry, a relation and a scene link (commands/codex.rs).        *)
(***************************************************************************)
TwoTagIds == {"t1", "t2"}

TwoEntryTagIds == {"x1", "x2"}

NextTags ==
    \/ \E c \in Categories :
           SaveCodexEntry([category |-> c, id |-> "e1", projectId |-> 1])
    \/ SaveCodexRelation([id |-> "r1", parentId |-> "e1", childId |-> "e2",
                          projectId |-> 1, typeId |-> NoneId])
    \/ SaveSceneCodexLink([id |-> "l1", sceneId |-> "sc1", codexId |-> "e1"])
    \/ \E t \in TwoTagIds : SaveCodexTag([id |-> t])
    \/ \E id \in TwoEntryTagIds, e \in EntryIds, t \in TwoTagIds :
           SaveCodexEntryTag([id |-> id, entryId |-> e, tagId |-> t])
    \/ \E t \in TwoTagIds : DeleteCodexTag(t)

SpecTags == InitEmpty /\ [][NextTags]_vars

\* C26: delete_codex_tag(project, t) removes the tag t and exactly the
\* entry-tag rows whose tagId is t; the other tags and entry-tag rows keep
\* their order, and the entry files, the relations, the scene links and the
\* relation types are as before.
C26_DeleteTagFrame ==
    last.op = "delete_codex_tag" =>
        /\ \A i \in 1..Len(tags) : tags[i].id # last.id
        /\ \A i \in 1..Len(entryTags) : entryTags[i].tagId # last.id
        /\ \E keep \in [1..Len(tags) -> 1..Len(last.pre.tags)] :
               /\ \A i \in 1..Len(tags) : tags[i] = last.pre.tags[keep[i]]
               /\ \A i, j \in 1..Len(tags) : i < j => keep[i] < keep[j]
               /\ \A k \in 1..Len(last.pre.tags) :
                      last.pre.tags[k].id # last.id => \E i \in 1..Len(tags) : keep[i] = k
        /\ \E keep \in [1..Len(entryTags) -> 1..Len(last.pre.entryTags)] :
               /\ \A i \in 1..Len(entryTags) : entryTags[i] = last.pre.entryTags[keep[i]]
               /\ \A i, j \in 1..Len(entryTags) : i < j => keep[i] < keep[j]
               /\ \A k \in 1..Len(last.pre.entryTags) :
                      last.pre.entryTags[k].tagId # last.id
                          => \E i \in 1..Len(entryTags) : keep[i] = k
        /\ codexFiles = last.pre.codexFiles
        /\ relations = last.pre.relations
        /\ sceneLinks = last.pre.sceneLinks
        /\ relationTypes = last.pre.relationTypes

\* A tag with a row is deleted while another tag, a row of that other tag
\* on the same entry, an entry, a relation and a scene link exist.
C26_Witness ==
    /\ last.op = "delete_codex_tag"
    /\ \E i \in 1..Len(last.pre.entryTags) : last.pre.entryTags[i].tagId = last.id
    /\ \E i \in 1..Len(last.pre.tags) : last.pre.tags[i].id = last.id
    /\ Len(tags) = 1
    /\ Len(entryTags) = 1
    /\ \E i \in 1..Len(last.pre.entryTags) :
           /\ last.pre.entryTags[i].tagId = last.id
           /\ last.pre.entryTags[i].entryId = entryTags[1].entryId
    /\ codexFiles # {}
    /\ relations # <<>>
    /\ sceneLinks # <<>>

\* The parents create_node is called with in SpecTree.
ParentInputs == {{}} \cup {{i} : i \in 1..MaxNodeUuid}

\* The children of the parent: the top level for None, else the children
\* of the node of the forest with that id.
ChildrenOf(nodes, parent) ==
    IF parent = {} THEN nodes
    ELSE (CHOOSE n \in NodesOfAll(nodes) : n.id \in parent).children

\* SpecCreateNodes: a tree that only grows.
NextCreateNodes ==
    \E t \in NodeTypes, parent \in ParentInputs : CreateNode(t, "Untitled", parent)

SpecCreateNodes == InitEmpty /\ [][NextCreateNodes]_vars

\* A create_node step whose parent is absent or in the tree: the parent has
\* its children of before followed by the new node, whose order is their
\* number; taking the new node out gives the tree of before.
CreateNodeAppends ==
    \A t \in NodeTypes, parent \in ParentInputs :
        (/\ CreateNode(t, "Untitled", parent)
         /\ parent = {} \/ \E n \in NodesOfAll(structure) : n.id \in parent) =>
            LET before == ChildrenOf(structure, parent)
                after == ChildrenOf(structure', parent)
            IN  /\ Len(after) = Len(before) + 1
                /\ SubSeq(after, 1, Len(before)) = before
                /\ after[Len(after)].id = nextUuid
                /\ after[Len(after)].type = t
                /\ after[Len(after)].order = Len(before)
                /\ after[Len(after)].children = <<>>
                /\ DeleteFromTree(structure', nextUuid).nodes = structure

\* C27: create_node gives the new node an order equal to the number of
\* children its parent had (of root nodes without a parentId) and appends
\* it as that parent's last child; the siblings and the rest of the tree
\* are unchanged and in the same order.
C27_CreateNodeAppendsAsLastChild == [][CreateNodeAppends]_vars

\* A node was created as the second child of a node that is itself a child.
C27_Witness ==
    /\ last.op = "create_node"
    /\ \E n \in NodesOfAll(structure), m \in NodesOfAll(structure) :
           /\ \E i \in 1..Len(n.children) : n.children[i] = m
           /\ Len(m.children) = 2
           /\ m.children[2].id = nextUuid - 1
           /\ m.children[2].order = 1

(***************************************************************************)
(* Listing the entries of a codex folder that holds more than entry files  *)
(* (commands/codex.rs, commands/series.rs).  The walk meets, two levels    *)
(* under the root, the entry files and what otherFiles holds: a .json      *)
(* file that does not parse as a CodexEntry, a file with another           *)
(* extension, a folder.  Their names are names no command of the           *)
(* specification addresses.                                                *)
(***************************************************************************)
OtherNames == {"draft", "notes"}

\* At most this many of them lie in the codex folders.
MaxOtherFiles == 2

OtherKinds == {"file", "dir"}

OtherExts == {"json", "txt"}

Roots == {"project", "series"}

\* What WalkDir yields at depth 2 under the root: for every entry file a
\* .json file whose content parses to the entry, and the other things,
\* whose content parses to nothing.
WalkCodexDir(files, others, root) ==
    {[category |-> f.category, name |-> f.id, ext |-> "json", kind |-> "file",
      parsed |-> {f}] : f \in files}
        \cup {[category |-> o.category, name |-> o.name, ext |-> o.ext, kind |-> o.kind,
               parsed |-> {}] : o \in {x \in others : x.root = root}}

\* The listing that returns the error of the first file that does not parse.
ListEntriesOrFail(walked) ==
    LET jsonFiles == {d \in walked : d.kind = "file" /\ d.ext = "json"}
    IN  [ok |-> \A d \in jsonFiles : d.parsed # {},
         entries |-> UNION {d.parsed : d \in jsonFiles}]

\* The loop of list_codex_entries and list_series_codex_entries: a walked
\* thing is pushed when it is a file, its extension is json, it can be read
\* and it parses; the result is Ok.
ListEntries(walked) ==
    [ok |-> TRUE,
     entries |-> UNION {d.parsed : d \in {x \in walked : x.kind = "file" /\ x.ext = "json"}}]

\* list_codex_entries(project)
ListCodexEntries ==
    /\ last' = [op |-> "list_codex_entries",
                result |-> ListEntries(WalkCodexDir(codexFiles, otherFiles, "project"))]
    /\ UNCHANGED <<codexVars, seriesCodexVars, restVars>>

\* list_series_codex_entries(series, category): with a category the walk
\* starts at its folder, one level down.
ListSeriesCodexEntriesIn(s, category) ==
    LET walked == WalkCodexDir(seriesCodexFiles[s], otherFiles, "series")
    IN  /\ last' = [op |-> "list_series_codex_entries",
                    result |-> ListEntries({d \in walked :
                                   category = {} \/ d.category \in category}),
                    category |-> category]
        /\ UNCHANGED <<codexVars, seriesCodexVars, restVars>>

\* Something else than an entry file comes to lie in a codex folder: a file
\* of another program, a file cut short, a folder.
PutOtherFile(o) ==
    /\ Cardinality(otherFiles \cup {o}) <= MaxOtherFiles
    /\ otherFiles' = otherFiles \cup {o}
    /\ last' = [op |-> "put_other_file"]
    /\ UNCHANGED <<disk, chat, procVars, codexVars, seriesCodexVars, projVars, nextUuid, treeVars, lifeVars>>

NextListEntries ==
    \/ \E e \in EntryIds, c \in Categories :
           SaveCodexEntry([category |-> c, id |-> e, projectId |-> 1])
    \/ \E c \in Categories :
           SaveSeriesCodexEntry(1, [category |-> c, id |-> "e1", projectId |-> 1])
    \/ \E root \in Roots, c \in Categories, n \in OtherNames, x \in OtherExts,
          k \in OtherKinds :
           /\ (n = "draft") = (k = "file" /\ x = "json")
           /\ k = "dir" => x = "json"
           /\ PutOtherFile([root |-> root, category |-> c, name |-> n, ext |-> x,
                            kind |-> k])
    \/ ListCodexEntries
    \/ \E category \in {{}} \cup {{c} : c \in Categories} :
           ListSeriesCodexEntriesIn(1, category)

SpecListEntries == InitEmpty /\ [][NextListEntries]_vars

\* The step is a listing: it returns Ok with exactly the entries of the
\* files <category>/<id>.json that parse (of the category asked for, when
\* one is), and no file is other than before.
ListingStep ==
    last'.op \in {"list_codex_entries", "list_series_codex_entries"} =>
        /\ last'.result.ok
        /\ last'.result.entries =
               IF last'.op = "list_codex_entries" THEN codexFiles
               ELSE {f \in seriesCodexFiles[1] :
                        last'.category = {} \/ f.category \in last'.category}
        /\ UNCHANGED <<codexVars, seriesCodexVars, otherFiles>>

\* C29: list_codex_entries and list_series_codex_entries never fail because
\* an entry file does not parse; they return exactly the entries of the
\* files at depth <category>/<id>.json that parse, leave out the others
\* silently and modify no file.
C29_ListingSkipsUnparsableFiles == [][ListingStep]_vars

\* A listing of a folder that holds an entry file and, in the category
\* listed, a .json file that does not parse has returned the entry.
C29_Witness ==
    /\ last.op \in {"list_codex_entries", "list_series_codex_entries"}
    /\ last.result.entries # {}
    /\ \E o \in otherFiles, f \in last.result.entries :
           /\ o.root = (IF last.op = "list_codex_entries" THEN "project" ELSE "series")
           /\ o.kind = "file"
           /\ o.ext = "json"
           /\ o.category = f.category

(***************************************************************************)
(* The scene commands and the names they are called with                   *)
(* (commands/scene.rs).  A name is the sequence of its pieces: a stem, an  *)
(* extension with its dot, "/", ".", ".." and " " for white space.  The    *)
(* manuscript folder holds the names as they were joined to its path.      *)
(***************************************************************************)
SceneNameInputs ==
    {<<>>, <<" ">>, <<"/", "a", ".md">>, <<"..", "/", "a", ".md">>,
     <<"a", "/", "a", ".md">>, <<".">>, <<"..">>, <<"a", ".txt">>, <<"a">>,
     <<".md">>, <<"a", ".md">>, <<"a", ".md", " ">>, <<" ", "a", ".md">>,
     <<" ", "/", "a", ".md">>}

RECURSIVE TrimStart(_)

\* str::trim, the front
TrimStart(name) ==
    IF name # <<>> /\ Head(name) = " " THEN TrimStart(Tail(name)) ELSE name

RECURSIVE TrimEnd(_)

\* str::trim, the back
TrimEnd(name) ==
    IF name # <<>> /\ name[Len(name)] = " "
    THEN TrimEnd(SubSeq(name, 1, Len(name) - 1))
    ELSE name

Trim(name) == TrimEnd(TrimStart(name))

RECURSIVE SplitPath(_, _)

\* The pieces between the separators, empty ones left out.
SplitPath(name, cur) ==
    IF name = <<>> THEN (IF cur = <<>> THEN <<>> ELSE <<cur>>)
    ELSE IF Head(name) = "/"
    THEN (IF cur = <<>> THEN <<>> ELSE <<cur>>) \o SplitPath(Tail(name), <<>>)
    ELSE SplitPath(Tail(name), Append(cur, Head(name)))

\* Path::is_absolute
IsAbsolute(name) == name # <<>> /\ Head(name) = "/"

\* Path::components: the root when the path is absolute, then the pieces;
\* a "." is left out unless it begins a relative path.
Components(name) ==
    LET segs == SplitPath(name, <<>>)
        notCurDir(g) == g # <<".">>
    IN  IF IsAbsolute(name) THEN <<<<"/">>>> \o SelectSeq(segs, notCurDir)
        ELSE IF segs = <<>> THEN <<>>
        ELSE <<Head(segs)>> \o SelectSeq(Tail(segs), notCurDir)

\* Component::Normal
IsNormal(component) == component \notin {<<"/">>, <<".">>, <<"..">>}

\* Path::extension of a path of one component: the part after the last dot
\* of a name that does not begin with it, as {} or {extension}.
Extension(component) ==
    IF /\ Len(component) >= 2
       /\ component[Len(component)] \in {".md", ".txt"}
    THEN {component[Len(component)]}
    ELSE {}

\* validate_scene_file_name: Ok or not; the name looked at is the trimmed.
ValidateSceneFileName(sceneFile) ==
    LET trimmed == Trim(sceneFile)
        components == Components(trimmed)
    IN  /\ trimmed # <<>>
        /\ ~IsAbsolute(trimmed)
        /\ Len(components) = 1
        /\ IsNormal(components[1])
        /\ Extension(components[1]) = {".md"}

\* load_scene: the file at manuscript/<scene_file> is read, which fails
\* when there is none.
LoadScene(sceneFile) ==
    /\ last' = IF ValidateSceneFileName(sceneFile)
               THEN [op |-> "load_scene", name |-> sceneFile,
                     ok |-> sceneFile \in manuscript,
                     accessed |-> {sceneFile} \cap manuscript,
                     pre |-> manuscript]
               ELSE [op |-> "load_scene", name |-> sceneFile, ok |-> FALSE,
                     accessed |-> {}, pre |-> manuscript]
    /\ UNCHANGED <<codexVars, seriesCodexVars, restVars>>

\* save_scene: the file at manuscript/<scene_file> is read when it exists
\* and written.
SaveScene(sceneFile) ==
    /\ IF ValidateSceneFileName(sceneFile)
       THEN /\ manuscript' = manuscript \cup {sceneFile}
            /\ last' = [op |-> "save_scene", name |-> sceneFile, ok |-> TRUE,
                        accessed |-> {sceneFile}, pre |-> manuscript]
       ELSE /\ manuscript' = manuscript
            /\ last' = [op |-> "save_scene", name |-> sceneFile, ok |-> FALSE,
                        accessed |-> {}, pre |-> manuscript]
    /\ UNCHANGED <<ioVars, codexVars, seriesCodexVars, projVars, nextUuid, structure,
                   dn, lifeVars>>

\* update_scene_metadata: the file is read, which fails when there is none,
\* and written again.
UpdateSceneMetadata(sceneFile) ==
    /\ last' = IF ValidateSceneFileName(sceneFile)
               THEN [op |-> "update_scene_metadata", name |-> sceneFile,
                     ok |-> sceneFile \in manuscript,
                     accessed |-> {sceneFile} \cap manuscript,
                     pre |-> manuscript]
               ELSE [op |-> "update_scene_metadata", name |-> sceneFile, ok |-> FALSE,
                     accessed |-> {}, pre |-> manuscript]
    /\ UNCHANGED <<codexVars, seriesCodexVars, restVars>>

\* delete_scene with any name: the file is removed when it exists.
DeleteSceneNamed(sceneFile) ==
    /\ IF ValidateSceneFileName(sceneFile)
       THEN /\ manuscript' = manuscript \ {sceneFile}
            /\ last' = [op |-> "delete_scene", name |-> sceneFile, ok |-> TRUE,
                        accessed |-> {sceneFile} \cap manuscript, pre |-> manuscript]
       ELSE /\ manuscript' = manuscript
            /\ last' = [op |-> "delete_scene", name |-> sceneFile, ok |-> FALSE,
                        accessed |-> {}, pre |-> manuscript]
    /\ UNCHANGED <<ioVars, codexVars, seriesCodexVars, projVars, nextUuid, structure,
                   dn, lifeVars>>

NextScenes ==
    \/ \E name \in SceneNameInputs : LoadScene(name)
    \/ \E name \in SceneNameInputs : SaveScene(name)
    \/ \E name \in SceneNameInputs : UpdateSceneMetadata(name)
    \/ \E name \in SceneNameInputs : DeleteSceneNamed(name)

SpecScenes == InitEmpty /\ [][NextScenes]_vars

\* The names the commands are to refuse: empty, absolute, of more than one
\* path component, "." or "..", or not ending in .md.
RefusedName(name) ==
    \/ name = <<>>
    \/ Head(name) = "/"
    \/ \E i \in 1..Len(name) : name[i] = "/"
    \/ name \in {<<".">>, <<"..">>}
    \/ name[Len(name)] # ".md"

\* C30: save_scene, load_scene, update_scene_metadata and delete_scene
\* return an error and read, write or delete no file when the scene file
\* name is empty, absolute, of more than one path component, "." or "..",
\* or does not end in .md.
C30_SceneCommandsRefuseBadNames ==
    (/\ last.op \in {"load_scene", "save_scene", "update_scene_metadata", "delete_scene"}
     /\ RefusedName(last.name)) =>
        /\ ~last.ok
        /\ last.accessed = {}
        /\ manuscript = last.pre

(***************************************************************************)
(* Writes over a file that exists, call by call of the file system         *)
(* (utils/io.rs, commands/project.rs, commands/scene.rs).  A file holds a  *)
(* complete content, or is "cut": opened with truncation and not, or not   *)
(* wholly, written.  The process can stop between any two calls.           *)
(***************************************************************************)
Contents == {"c1", "c2", "c3"}

\* fs::write(path, new), its File::create: the file is truncated.
\* update_project writes .meta/project.json this way.
UpdateProjectTruncate(new) ==
    /\ disk.pc.op = "idle"
    /\ new # disk.project
    /\ disk' = [disk EXCEPT !.project = "cut",
                            !.pc = [op |-> "update_project", step |-> "truncated",
                                    old |-> disk.project, new |-> new]]
    /\ last' = [op |-> "update_project_write"]
    /\ UNCHANGED <<otherFiles, chat, procVars, codexVars, seriesCodexVars, projVars, nextUuid,
                   treeVars, lifeVars>>

\* fs::write(path, new), its write_all: the content is there.
UpdateProjectWriteAll ==
    /\ disk.pc.op = "update_project"
    /\ disk' = [disk EXCEPT !.project = disk.pc.new, !.pc = IdleWrite]
    /\ last' = [op |-> "update_project", old |-> disk.pc.old, new |-> disk.pc.new]
    /\ UNCHANGED <<otherFiles, chat, procVars, codexVars, seriesCodexVars, projVars, nextUuid,
                   treeVars, lifeVars>>

\* atomic_write(path, new), fs::write of the temporary file, its
\* File::create.  save_scene and update_scene_metadata write the scene
\* document this way, through write_scene_to_path.
AtomicWriteCreateTemp(op, new) ==
    /\ disk.pc.op = "idle"
    /\ new # disk.scene
    /\ disk' = [disk EXCEPT !.tmp = "cut",
                            !.pc = [op |-> op, step |-> "temp_created",
                                    old |-> disk.scene, new |-> new]]
    /\ last' = [op |-> "atomic_write"]
    /\ UNCHANGED <<otherFiles, chat, procVars, codexVars, seriesCodexVars, projVars, nextUuid,
                   treeVars, lifeVars>>

\* atomic_write, fs::write of the temporary file, its write_all.
AtomicWriteFillTemp ==
    /\ disk.pc.step = "temp_created"
    /\ disk' = [disk EXCEPT !.tmp = disk.pc.new, !.pc.step = "temp_written"]
    /\ last' = [op |-> "atomic_write"]
    /\ UNCHANGED <<otherFiles, chat, procVars, codexVars, seriesCodexVars, projVars, nextUuid,
                   treeVars, lifeVars>>

\* atomic_write, fs::rename: the temporary file takes the target's place.
AtomicWriteRename ==
    /\ disk.pc.step = "temp_written"
    /\ disk' = [disk EXCEPT !.scene = disk.tmp, !.tmp = "absent", !.pc = IdleWrite]
    /\ last' = [op |-> disk.pc.op, old |-> disk.pc.old, new |-> disk.pc.new]
    /\ UNCHANGED <<otherFiles, chat, procVars, codexVars, seriesCodexVars, projVars, nextUuid,
                   treeVars, lifeVars>>

\* The process stops in the middle of a write; the files stay as they are.
WriteInterrupted ==
    /\ disk.pc.op # "idle"
    /\ disk' = [disk EXCEPT !.pc = IdleWrite]
    /\ last' = [op |-> "interrupted", of |-> disk.pc.op, old |-> disk.pc.old,
                new |-> disk.pc.new]
    /\ UNCHANGED <<otherFiles, chat, procVars, codexVars, seriesCodexVars, projVars, nextUuid,
                   treeVars, lifeVars>>

\* Someone puts a complete project.json back in place of a cut one.
RepairProjectJson(new) ==
    /\ disk.pc.op = "idle"
    /\ disk.project = "cut"
    /\ disk' = [disk EXCEPT !.project = new]
    /\ last' = [op |-> "repair"]
    /\ UNCHANGED <<otherFiles, chat, procVars, codexVars, seriesCodexVars, projVars, nextUuid,
                   treeVars, lifeVars>>

NextWrites ==
    \/ \E new \in Contents : UpdateProjectTruncate(new)
    \/ UpdateProjectWriteAll
    \/ \E op \in {"save_scene", "update_scene_metadata"}, new \in Contents :
           AtomicWriteCreateTemp(op, new)
    \/ AtomicWriteFillTemp
    \/ AtomicWriteRename
    \/ WriteInterrupted
    \/ \E new \in Contents : RepairProjectJson(new)

SpecWrites == InitEmpty /\ [][NextWrites]_vars

\* C23: a write that replaces .meta/project.json or a scene document
\* leaves, at whatever call it is interrupted, the target with its complete
\* old or its complete new content, never a partial or an empty one.
C23_ReplacingWritesAreAtomic ==
    /\ disk.pc.op = "update_project" => disk.project \in {disk.pc.old, disk.pc.new}
    /\ disk.pc.op \in {"save_scene", "update_scene_metadata"} =>
           disk.scene \in {disk.pc.old, disk.pc.new}
    /\ (last.op = "interrupted" /\ last.of = "update_project") =>
           disk.project \in {last.old, last.new}
    /\ (last.op = "interrupted" /\ last.of \in {"save_scene", "update_scene_metadata"}) =>
           disk.scene \in {last.old, last.new}

(***************************************************************************)
(* Series that are created, deleted and restored (commands/series.rs).     *)
(***************************************************************************)

\* create_series is called while the uuids went up to this one, and a
\* restore creates the series after it.
MaxSeries == 2

\* The arguments of create_series: title, description, author, genre, status.
SeriesInputs ==
    {<<"Saga", {}, {}, {}, {}>>,
     <<"Saga", {"d1"}, {"a1"}, {"g1"}, {"draft"}>>,
     <<"", {}, {}, {}, {}>>}

\* The titles update_series is called with.
NewTitleInputs == {"Cycle", ""}

\* create_series: the title is validated; the series gets a fresh id and is
\* pushed at the end of series.json.  Titles are not compared.
CreateSeries(title, description, author, genre, status) ==
    /\ dsc.pc = "idle"
    /\ nextUuid <= MaxSeries
    /\ IF ValidProjectTitle(title)
       THEN /\ seriesList' = Append(seriesList,
                    NewSeries(nextUuid, title, description, author, genre, status))
            /\ nextUuid' = nextUuid + 1
            /\ last' = [op |-> "create_series", ok |-> TRUE]
       ELSE /\ UNCHANGED <<seriesList, nextUuid>>
            /\ last' = [op |-> "create_series", ok |-> FALSE]
    /\ UNCHANGED <<ioVars, codexVars, seriesCodexVars, projectDirs, registry, recent,
                   treeVars, lifeVars>>

\* update_series with a title among the updates: the title is validated,
\* an unknown id is Err, else the series gets the title.
UpdateSeries(seriesId, title) ==
    /\ dsc.pc = "idle"
    /\ IF ValidProjectTitle(title) /\ \E x \in Range(seriesList) : x.id = seriesId
       THEN /\ seriesList' = [i \in 1..Len(seriesList) |->
                                 IF seriesList[i].id = seriesId
                                 THEN [seriesList[i] EXCEPT !.title = title]
                                 ELSE seriesList[i]]
            /\ last' = [op |-> "update_series", ok |-> TRUE]
       ELSE /\ UNCHANGED seriesList
            /\ last' = [op |-> "update_series", ok |-> FALSE]
    /\ UNCHANGED <<ioVars, codexVars, seriesCodexVars, projectDirs, registry, recent,
                   nextUuid, treeVars, lifeVars>>

\* The first element of the sequence that satisfies the test, as {} or {x}.
FindFirst(seq, Test(_)) ==
    IF \E i \in 1..Len(seq) : Test(seq[i])
    THEN {seq[CHOOSE i \in 1..Len(seq) :
                  Test(seq[i]) /\ \A j \in 1..(i - 1) : ~Test(seq[j])]}
    ELSE {}

\* The restore that creates a series from the record whatever is listed.
AlwaysRecreatedSeriesId(record) ==
    [id |-> nextUuid, created |-> TRUE, written |-> TRUE]

\* restore_or_recreate_deleted_series, for the record of the deleted
\* series: the id it was restored under when that series is listed, else
\* the id of the first listed series with the record's title, else the id
\* of a series created from the record.
RestoredSeriesId(record) ==
    LET isRestored(x) == x.id \in record.restoredSeriesId
        sameTitle(x) == x.title = record.title
    IN  IF FindFirst(seriesList, isRestored) # {}
        THEN [id |-> CHOOSE id \in record.restoredSeriesId : TRUE,
              created |-> FALSE, written |-> FALSE]
        ELSE IF FindFirst(seriesList, sameTitle) # {}
        THEN [id |-> (CHOOSE x \in FindFirst(seriesList, sameTitle) : TRUE).id,
              created |-> FALSE, written |-> TRUE]
        ELSE [id |-> nextUuid, created |-> TRUE, written |-> TRUE]

\* restore_deleted_series(old_series_id): Err without a record; else the
\* series is restored or recreated, its id is written into the record, and
\* the series of that id is returned from series.json.
RestoreDeletedSeries(old) ==
    LET isOld(r) == r.oldSeriesId = old
        found == FindFirst(deletedSeries, isOld)
        record == CHOOSE r \in found : TRUE
        res == RestoredSeriesId(record)
    IN  /\ dsc.pc = "idle"
        /\ IF found = {}
           THEN /\ UNCHANGED <<seriesList, deletedSeries, nextUuid>>
                /\ last' = [op |-> "restore_deleted_series", ok |-> FALSE,
                            seriesId |-> old, record |-> {}, result |-> {},
                            titleListed |-> FALSE]
           ELSE /\ res.created => nextUuid <= MaxSeries + 1
                /\ seriesList' =
                       IF res.created
                       THEN Append(seriesList,
                                NewSeries(res.id, record.title, record.description,
                                          record.author, record.genre, record.status))
                       ELSE seriesList
                /\ nextUuid' = IF res.created THEN nextUuid + 1 ELSE nextUuid
                /\ deletedSeries' =
                       IF res.written
                       THEN [i \in 1..Len(deletedSeries) |->
                                IF deletedSeries[i] = record
                                THEN [record EXCEPT !.restoredSeriesId = {res.id}]
                                ELSE deletedSeries[i]]
                       ELSE deletedSeries
                /\ last' = [op |-> "restore_deleted_series", ok |-> TRUE,
                            seriesId |-> old, record |-> {record},
                            result |-> {x \in Range(seriesList') : x.id = res.id},
                            titleListed |-> \E x \in Range(seriesList) :
                                                x.title = record.title]
        /\ UNCHANGED <<ioVars, codexVars, seriesCodexVars, projectDirs, registry, recent,
                       treeVars, trash, exports, dsc>>

NextRestoreSeries ==
    \/ \E in \in SeriesInputs : CreateSeries(in[1], in[2], in[3], in[4], in[5])
    \/ \E s \in 1..MaxSeries : DeleteSeries(s)
    \/ \E s \in 1..MaxSeries : DeleteSeriesCascadeList(s)
    \/ DeleteSeriesCascadeSeries
    \/ \E s \in 1..MaxSeries : RestoreDeletedSeries(s)
    \/ \E s \in 1..(MaxSeries + 1), title \in NewTitleInputs : UpdateSeries(s, title)

SpecRestoreSeries == InitEmpty /\ [][NextRestoreSeries]_vars

\* The optional fields of a series or of a record of a deleted series.
Details(x) == <<x.description, x.author, x.genre, x.status>>

\* The last command was a delete_series or a delete_series_cascade that
\* returned Ok for a series that was listed.
SeriesJustDeleted ==
    /\ last.op \in {"delete_series", "delete_series_cascade"}
    /\ last.op = "delete_series_cascade" => last.done
    /\ last.ok
    /\ \E x \in Range(last.pre.seriesList) : x.id = last.seriesId

\* After a delete of a listed series the registry holds exactly one record
\* of it, with the title and the optional fields the series had.
DeletedSeriesIsRecorded ==
    SeriesJustDeleted =>
        LET x == CHOOSE x \in Range(last.pre.seriesList) : x.id = last.seriesId
        IN  /\ Cardinality({i \in 1..Len(deletedSeries) :
                               deletedSeries[i].oldSeriesId = x.id}) = 1
            /\ \E i \in 1..Len(deletedSeries) :
                   /\ deletedSeries[i].oldSeriesId = x.id
                   /\ deletedSeries[i].title = x.title
                   /\ Details(deletedSeries[i]) = Details(x)

\* The last command was the first restore_deleted_series of a series since
\* it was deleted.
FirstRestore ==
    /\ last.op = "restore_deleted_series"
    /\ \E r \in last.record : r.restoredSeriesId = {}

\* C28 as the specification has it: after a delete that succeeded the
\* registry holds exactly one record of the series, and
\* restore_deleted_series yields a listed series with another id whose
\* title, description, author, genre and status are those of the deleted
\* series.
C28_RestoreYieldsTheDeletedFields ==
    /\ DeletedSeriesIsRecorded
    /\ FirstRestore =>
           /\ last.ok
           /\ \E x \in last.result, r \in last.record :
                  /\ x \in Range(seriesList)
                  /\ x.id # last.seriesId
                  /\ x.title = r.title
                  /\ Details(x) = Details(r)

\* C28, amended: after a delete that succeeded the registry holds exactly
\* one record of the series, and the first restore_deleted_series after it
\* yields a listed series with another id and the title of the deleted
\* series; its description, author, genre and status are those of the
\* deleted series when no listed series had that title, and else those of
\* the first listed series with that title.
C28_RestoreYieldsTheDeletedTitle ==
    /\ DeletedSeriesIsRecorded
    /\ FirstRestore =>
           /\ last.ok
           /\ \E x \in last.result, r \in last.record :
                  /\ x \in Range(seriesList)
                  /\ x.id # last.seriesId
                  /\ x.title = r.title
                  /\ ~last.titleListed => Details(x) = Details(r)
                  /\ \E i \in 1..Len(deletedSeries) :
                         /\ deletedSeries[i].oldSeriesId = last.seriesId
                         /\ deletedSeries[i].restoredSeriesId = {x.id}

\* A deleted series with a description was restored as a new series.
C28_Witness ==
    /\ last.op = "restore_deleted_series"
    /\ FirstRestore
    /\ ~last.titleListed
    /\ \E x \in last.result : x.description # {} /\ x.id # last.seriesId

(***************************************************************************)
(* restore_chats (commands/backup.rs): the chats and the messages of a     *)
(* backup are written into the chat folder of the imported project.  An    *)
(* id is the sequence of its pieces, " " being white space; a JSON number  *)
(* is an Option of an integer of the i64 and u64 ranges, which here end at *)
(* I64Max and 2 * I64Max + 1.                                              *)
(***************************************************************************)
MaxChats == 2

MaxMessages == 2

I64Max == 3

ChatIdInputs == {<<"t1">>, <<" ", "t1">>}

ThreadIdInputs == {<<>>, <<"t1">>, <<" ", "t1">>, <<"t2">>}

\* Absent, an i64 and a u64 above the i64 range.
JsonNumbers == {{}, {1}, {I64Max + 2}}

NowInputs == {2}

\* A JSON value that is not an object.
NotAnObject == [isObject |-> FALSE, id |-> <<>>, number |-> {}]

\* The chats of a backup: id and updatedAt, absent or an i64; createdAt is
\* absent.
ChatInputs ==
    {[isObject |-> TRUE, id |-> id, number |-> u] :
        id \in ChatIdInputs, u \in {{}, {1}}}

\* The messages of a backup: threadId and timestamp.
MessageInputs ==
    {[isObject |-> TRUE, id |-> id, number |-> ts] :
        id \in ThreadIdInputs, ts \in JsonNumbers} \cup {NotAnObject}

\* normalize_timestamp: as_i64, else as_u64 cast to i64, else the fallback.
NormalizeTimestamp(value, fallback) ==
    IF value = {} THEN fallback
    ELSE LET v == CHOOSE v \in value : TRUE
         IN  IF v <= I64Max THEN v ELSE v - 2 * (I64Max + 1)

\* The messages kept, normalized, in the order of the backup: those that
\* are objects with a threadId that is not empty when trimmed.  src is the
\* place of the message in the backup and stands for its other fields.
NormalizedMessages(messages, now) ==
    LET kept(i) == messages[i].isObject /\ Trim(messages[i].id) # <<>>
        normalized(i) == [threadId |-> messages[i].id,
                          timestamp |-> NormalizeTimestamp(messages[i].number, now),
                          src |-> i]
        RECURSIVE from(_)
        from(i) == IF i > Len(messages) THEN <<>>
                   ELSE (IF kept(i) THEN <<normalized(i)>> ELSE <<>>) \o from(i + 1)
    IN  from(1)

\* grouped_messages[thread_id]
GroupedMessages(normalized, threadId) ==
    SelectSeq(normalized, LAMBDA m : Trim(m.threadId) = threadId)

\* thread_max_timestamp.get(thread_id), as {} or {max}
ThreadMaxTimestamp(normalized, threadId) ==
    LET stamps == {m.timestamp : m \in Range(GroupedMessages(normalized, threadId))}
    IN  IF stamps = {} THEN {}
        ELSE {CHOOSE t \in stamps : \A u \in stamps : u <= t}

\* The updatedAt of the chat as it is in the backup.
UpdatedAtOfChat(updatedAt, maxTs) == updatedAt

\* if *max_ts > updated_at { updated_at = *max_ts }
UpdatedAt(updatedAt, maxTs) ==
    IF maxTs # {} /\ (CHOOSE t \in maxTs : TRUE) > updatedAt
    THEN CHOOSE t \in maxTs : TRUE
    ELSE updatedAt

RECURSIVE ChatThreads(_, _, _, _)

\* The loop over the chats: a chat that is no object, whose trimmed id is
\* empty or was met before is skipped; the record keeps the id of the chat.
ChatThreads(chats, seen, normalized, now) ==
    IF chats = <<>> THEN <<>>
    ELSE LET c == Head(chats)
             threadId == Trim(c.id)
             createdAt == NormalizeTimestamp({}, now)
         IN  IF ~c.isObject \/ threadId = <<>> \/ threadId \in seen
             THEN ChatThreads(Tail(chats), seen, normalized, now)
             ELSE <<[id |-> c.id, key |-> threadId, createdAt |-> createdAt,
                     updatedAt |-> UpdatedAt(NormalizeTimestamp(c.number, createdAt),
                                       ThreadMaxTimestamp(normalized, threadId))]>>
                      \o ChatThreads(Tail(chats), seen \cup {threadId}, normalized, now)

\* The thread made up for messages without a chat.
FallbackThread(normalized, threadId) ==
    LET maxTs == CHOOSE t \in ThreadMaxTimestamp(normalized, threadId) : TRUE
    IN  [id |-> threadId, key |-> threadId, createdAt |-> maxTs, updatedAt |-> maxTs]

RECURSIVE SortByTimestamp(_)

\* sort_by_key on the timestamp: stable.
SortByTimestamp(messages) ==
    IF messages = <<>> THEN <<>>
    ELSE LET m == Head(messages)
             rest == SortByTimestamp(Tail(messages))
             before == SelectSeq(rest, LAMBDA x : x.timestamp < m.timestamp)
             after == SelectSeq(rest, LAMBDA x : x.timestamp >= m.timestamp)
         IN  before \o <<m>> \o after

\* restore_chats, once for the project: threads.json gets the threads of
\* the chats, then the made-up ones in the order the keys of the hash map
\* come; messages/<thread_id>.json gets the sorted messages of each.  key
\* is the thread_id of the loops and is not written.
RestoreChats(chats, messages, now) ==
    /\ ~chat.restored
    /\ LET normalized == NormalizedMessages(messages, now)
           fromChats == ChatThreads(chats, {}, normalized, now)
           missing == {Trim(m.threadId) : m \in Range(normalized)}
                          \ {t.key : t \in Range(fromChats)}
       IN  \E order \in OrdersOf(missing) :
               LET threads == fromChats \o
                                  [i \in 1..Len(order) |->
                                      FallbackThread(normalized, order[i])]
               IN  chat' = [restored |-> TRUE,
                            threads |-> threads,
                            files |-> {[name |-> t.key,
                                        messages |-> SortByTimestamp(
                                            GroupedMessages(normalized, t.key))] :
                                          t \in Range(threads)}]
    /\ last' = [op |-> "restore_chats", chats |-> chats, messages |-> messages,
                now |-> now]
    /\ UNCHANGED <<otherFiles, disk, procVars, codexVars, seriesCodexVars, projVars, nextUuid,
                   treeVars, lifeVars>>

NextRestoreChats ==
    /\ ~chat.restored
    /\ \E chats \in SeqsUpTo(ChatInputs, MaxChats),
          messages \in SeqsUpTo(MessageInputs, MaxMessages), now \in NowInputs :
           RestoreChats(chats, messages, now)

SpecRestoreChats == InitEmpty /\ [][NextRestoreChats]_vars

\* C24: after restore_chats every thread record of threads.json has an
\* updatedAt that is at least the timestamp of every message written to
\* the message file of that thread.
C24_UpdatedAtCoversMessages ==
    \A i \in 1..Len(chat.threads) : \A f \in chat.files :
        f.name \in {chat.threads[i].id, Trim(chat.threads[i].id)} =>
            \A k \in 1..Len(f.messages) :
                chat.threads[i].updatedAt >= f.messages[k].timestamp

\* The thread of a chat whose updatedAt in the backup is below the
\* timestamp of one of its messages was written with that timestamp.
C24_Witness ==
    /\ last.op = "restore_chats"
    /\ \E i \in 1..Len(last.chats), t \in Range(chat.threads), f \in chat.files :
           /\ last.chats[i].id = t.id
           /\ f.name = t.id
           /\ \E u \in last.chats[i].number : u < t.updatedAt
           /\ \E k \in 1..Len(f.messages) : f.messages[k].timestamp = t.updatedAt

\* C25: after restore_chats the thread list holds each thread id at most
\* once and a record for every threadId that is not empty of an imported
\* message; every written thread has exactly one message file, which holds
\* exactly the imported messages of that thread in non-decreasing order of
\* timestamp; the messages with an empty threadId are written nowhere.
C25_ThreadsAndMessageFiles ==
    last.op = "restore_chats" =>
        LET objects == {i \in 1..Len(last.messages) : last.messages[i].isObject}
        IN  /\ \A i, j \in 1..Len(chat.threads) :
                   chat.threads[i].id = chat.threads[j].id => i = j
            /\ \A i \in objects :
                   last.messages[i].id # <<>> =>
                       \E t \in Range(chat.threads) : t.id = last.messages[i].id
            /\ \A t \in Range(chat.threads) :
                   /\ Cardinality({f \in chat.files : f.name = t.id}) = 1
                   /\ \A f \in chat.files :
                          f.name = t.id =>
                              /\ {m.src : m \in Range(f.messages)}
                                     = {i \in objects : last.messages[i].id = t.id}
                              /\ Len(f.messages)
                                     = Cardinality({m.src : m \in Range(f.messages)})
                              /\ \A k \in 1..(Len(f.messages) - 1) :
                                     f.messages[k].timestamp
                                         <= f.messages[k + 1].timestamp
            /\ \A f \in chat.files : \A m \in Range(f.messages) :
                   last.messages[m.src].id # <<>>

(***************************************************************************)
(* The trash of single items (commands/trash.rs).  A path is the sequence  *)
(* of its components below the project folder; a scene file is named by    *)
(* its path without the ".md" every scene file ends with.                  *)
(***************************************************************************)

\* The item ids the front end passes: two plain ids and ids with ".."
\* components.
ItemIdInputs ==
    {<<"u1">>, <<"u2">>, <<"..", "escape">>, <<"..", "missing">>,
     <<"..", "..", "manuscript">>}

\* project_dir.join(".meta").join("trash")
ItemTrashDir == <<".meta", "trash">>

\* The path without its last component.
Parent(path) == SubSeq(path, 1, Len(path) - 1)

\* Whether a folder is at a path free of "..": the project folder itself or
\* one of the folders under it.
IsDir(fs, path) == path = <<>> \/ path \in fs.dirs

\* What the operating system resolves a path to, component by component
\* from the folder cur: {} when a component is looked up in a folder that
\* does not exist, else {the path free of ".."}.
RECURSIVE ResolveFrom(_, _, _)
ResolveFrom(fs, cur, rest) ==
    IF rest = <<>> THEN {cur}
    ELSE IF ~IsDir(fs, cur) THEN {}
    ELSE IF Head(rest) = ".." THEN ResolveFrom(fs, Parent(cur), Tail(rest))
    ELSE ResolveFrom(fs, Append(cur, Head(rest)), Tail(rest))

\* path.exists() of a folder path.
DirExists(fs, path) == \E p \in ResolveFrom(fs, <<>>, path) : IsDir(fs, p)

\* path starts with the components of dir.
IsUnder(dir, path) == Len(path) >= Len(dir) /\ SubSeq(path, 1, Len(dir)) = dir

\* The folders from the project folder down to path.
Ancestors(path) == {SubSeq(path, 1, n) : n \in 1..Len(path)}

\* fs::create_dir_all of a path free of "..".
CreateDirAll(fs, path) == [fs EXCEPT !.dirs = @ \cup Ancestors(path)]

\* fs::remove_dir_all of a path free of "..": the folder and all under it.
RemoveDirAll(fs, dir) ==
    [scenes |-> {f \in fs.scenes : ~IsUnder(dir, f)},
     dirs |-> {d \in fs.dirs : ~IsUnder(dir, d)},
     trashed |-> {t \in fs.trashed : ~IsUnder(dir, t.dir)}]

\* move_to_trash(project_path, item_id, "scene", trash_meta) with a
\* trash_meta that parses.
MoveToTrash(itemId) ==
    LET withTrash == CreateDirAll(itemFs, ItemTrashDir)
        sourceDir == ResolveFrom(withTrash, <<>>, <<"manuscript">> \o Parent(itemId))
        source == {Append(d, itemId[Len(itemId)]) : d \in sourceDir} \cap withTrash.scenes
        itemDir == ResolveFrom(withTrash, <<>>, ItemTrashDir \o itemId)
    IN  /\ IF source = {} \/ itemDir = {}
           THEN /\ itemFs' = withTrash
                /\ last' = [op |-> "move_to_trash", id |-> itemId, ok |-> FALSE,
                            pre |-> itemFs]
           ELSE \E s \in source, d \in itemDir :
                /\ itemFs' = [scenes |-> withTrash.scenes \ {s},
                              dirs |-> withTrash.dirs \cup Ancestors(d),
                              trashed |-> withTrash.trashed
                                  \cup {[dir |-> d, name |-> s[Len(s)]]}]
                /\ last' = [op |-> "move_to_trash", id |-> itemId, ok |-> TRUE,
                            pre |-> itemFs]
        /\ UNCHANGED <<upserts, templates, sse, otherFiles, disk, chat, codexVars, seriesCodexVars,
                       projVars, nextUuid, treeVars, lifeVars>>

\* restore_from_trash(project_path, item_id, "scene"): the first file of the
\* item's folder that is not meta.json goes back to manuscript/.
RestoreFromTrash(itemId) ==
    LET itemDir == {d \in ResolveFrom(itemFs, <<>>, ItemTrashDir \o itemId) :
                        IsDir(itemFs, d)}
        entries == {t \in itemFs.trashed : t.dir \in itemDir}
    IN  /\ IF entries = {} \/ ~IsDir(itemFs, <<"manuscript">>)
           THEN /\ itemFs' = itemFs
                /\ last' = [op |-> "restore_from_trash", id |-> itemId, ok |-> FALSE,
                            pre |-> itemFs]
           ELSE \E t \in entries :
                /\ itemFs' = RemoveDirAll(
                       [itemFs EXCEPT !.scenes = @ \cup {<<"manuscript", t.name>>}],
                       t.dir)
                /\ last' = [op |-> "restore_from_trash", id |-> itemId, ok |-> TRUE,
                            pre |-> itemFs]
        /\ UNCHANGED <<upserts, templates, sse, otherFiles, disk, chat, codexVars, seriesCodexVars,
                       projVars, nextUuid, treeVars, lifeVars>>

\* permanent_delete(project_path, item_id, _item_type)
PermanentDelete(itemId) ==
    LET trashDir == {d \in ResolveFrom(itemFs, <<>>, ItemTrashDir \o itemId) :
                         IsDir(itemFs, d)}
    IN  /\ itemFs' = IF trashDir = {} THEN itemFs
                     ELSE RemoveDirAll(itemFs, CHOOSE d \in trashDir : TRUE)
        /\ last' = [op |-> "permanent_delete", id |-> itemId, ok |-> TRUE,
                    pre |-> itemFs]
        /\ UNCHANGED <<upserts, templates, sse, otherFiles, disk, chat, codexVars, seriesCodexVars,
                       projVars, nextUuid, treeVars, lifeVars>>

\* empty_trash(project_path)
EmptyTrash ==
    /\ itemFs' = IF IsDir(itemFs, ItemTrashDir)
                 THEN CreateDirAll(RemoveDirAll(itemFs, ItemTrashDir), ItemTrashDir)
                 ELSE itemFs
    /\ last' = [op |-> "empty_trash", id |-> <<>>, ok |-> TRUE, pre |-> itemFs]
    /\ UNCHANGED <<upserts, templates, sse, otherFiles, disk, chat, codexVars, seriesCodexVars,
                   projVars, nextUuid, treeVars, lifeVars>>

NextItemTrash ==
    \/ \E itemId \in ItemIdInputs : MoveToTrash(itemId)
    \/ \E itemId \in ItemIdInputs : RestoreFromTrash(itemId)
    \/ \E itemId \in ItemIdInputs : PermanentDelete(itemId)
    \/ EmptyTrash

SpecItemTrash == InitEmpty /\ [][NextItemTrash]_vars

\* An item id with a ".." component.
HasParentDirComponent(itemId) == \E i \in 1..Len(itemId) : itemId[i] = ".."

\* C31: permanent_delete with an item id that has ".." components returns an
\* error and deletes nothing, whether or not a folder is at the resolved
\* path; with a plain id it succeeds.
C31_PermanentDeleteRejectsTraversalIds ==
    last.op = "permanent_delete"
        => IF HasParentDirComponent(last.id)
           THEN ~last.ok /\ itemFs = last.pre
           ELSE last.ok

(***************************************************************************)
(* Two callers of save_codex_relation (commands/codex.rs 155-174).  A call *)
(* is two steps, the read of the file and the write of the whole vector;   *)
(* nothing in the code keeps another call from stepping in between.        *)
(***************************************************************************)

Callers == {"A", "B"}

\* The other of the two callers.
Other(c) == CHOOSE d \in Callers : d # c

\* The vector written as if the file were read again at the time of writing.
UpsertIntoFile(onDisk, readEarlier, item) == Upsert(onDisk, item)

\* The vector a call writes: the one it read at its start with its record
\* put in, whatever the file holds by the time of the write.
UpsertedVector(onDisk, readEarlier, item) == Upsert(readEarlier, item)

\* save_codex_relation up to the end of its read (lines 156-163).
SaveCodexRelationRead(c, r) ==
    /\ upserts.calls[c].pc = "idle"
    /\ upserts' = [calls |-> [upserts.calls EXCEPT ![c] =
                                 [pc |-> "read", record |-> r, snapshot |-> relations,
                                  readAt |-> upserts.clock]],
                   clock |-> upserts.clock + 1]
    /\ last' = [op |-> "save_codex_relation_read", caller |-> c]
    /\ UNCHANGED <<itemFs, templates, sse, otherFiles, disk, chat, codexVars, seriesCodexVars,
                   projVars, nextUuid, treeVars, lifeVars>>

\* save_codex_relation from the upsert to the write (lines 165-173).
SaveCodexRelationWrite(c) ==
    LET call == upserts.calls[c]
    IN  /\ call.pc = "read"
        /\ relations' = UpsertedVector(relations, call.snapshot, call.record)
        /\ upserts' = [calls |-> [upserts.calls EXCEPT ![c] =
                                     [pc |-> "done", record |-> call.record,
                                      snapshot |-> call.snapshot,
                                      readAt |-> call.readAt,
                                      wroteAt |-> upserts.clock]],
                       clock |-> upserts.clock + 1]
        /\ last' = [op |-> "save_codex_relation_write", caller |-> c]
        /\ UNCHANGED <<itemFs, templates, sse, otherFiles, disk, chat, codexFiles,
                       sceneLinks, entryTags, tags, relationTypes, seriesCodexVars,
                       projVars, nextUuid, treeVars, lifeVars>>

\* One call after the other builds the file; then each of the two callers
\* makes one call, their steps in any order.
NextInterleavedSaves ==
    \/ /\ upserts.clock = 0
       /\ \E id \in RelationIds, p \in EntryIds :
              SaveCodexRelation([id |-> id, parentId |-> p, childId |-> "e1",
                                 projectId |-> 1, typeId |-> NoneId])
    \/ \E c \in Callers, id \in RelationIds, p \in EntryIds :
           SaveCodexRelationRead(c, [id |-> id, parentId |-> p, childId |-> "e2",
                                     projectId |-> 1, typeId |-> NoneId])
    \/ \E c \in Callers : SaveCodexRelationWrite(c)

SpecInterleavedSaves == InitEmpty /\ [][NextInterleavedSaves]_vars

\* Both callers have finished their calls, of records with different ids.
BothSaved ==
    /\ \A c \in Callers : upserts.calls[c].pc = "done"
    /\ upserts.calls["A"].record.id # upserts.calls["B"].record.id

\* The caller whose write came last.
LastWriter ==
    CHOOSE c \in Callers : \A d \in Callers :
        upserts.calls[d].wroteAt <= upserts.calls[c].wroteAt

\* Both callers read the file before either wrote it.
BothReadFirst ==
    \A c, d \in Callers : upserts.calls[c].readAt < upserts.calls[d].wroteAt

\* The file holds the record.
Holds(file, r) == \E i \in 1..Len(file) : file[i] = r

\* C32: when both calls read the file before either writes it, the file in the
\* end is what the last writer read with its own record put in, and the other
\* caller's record is in it only if it was in the file already; when one call
\* ends before the other begins, the file holds both records.
C32_LastWriterWins ==
    BothSaved =>
        LET w == upserts.calls[LastWriter]
            o == upserts.calls[Other(LastWriter)]
        IN  IF BothReadFirst
            THEN /\ relations = Upsert(w.snapshot, w.record)
                 /\ Holds(relations, o.record) <=> Holds(w.snapshot, o.record)
            ELSE Holds(relations, w.record) /\ Holds(relations, o.record)

\* Both read first, and the first writer's record is lost.
C32_Witness ==
    /\ BothSaved
    /\ BothReadFirst
    /\ relations # <<>>
    /\ Len(upserts.calls[LastWriter].snapshot) > 0
    /\ ~Holds(relations, upserts.calls[Other(LastWriter)].record)

(***************************************************************************)
(* The entry files of the project codex after a save.                      *)
(***************************************************************************)

\* C33: after save_codex_entry(project, entry), also when a file of that id
\* lay under another category folder, exactly one file named <id>.json is
\* under the project's codex root and list_codex_entries returns a single
\* entry with that id.
C33_SaveLeavesOneFileOfTheEntry ==
    last.op = "save_codex_entry" =>
        /\ Cardinality(FilesNamed(codexFiles, last.entry.id)) = 1
        /\ Cardinality({x \in ListEntries(WalkCodexDir(codexFiles, otherFiles,
                                                       "project")).entries :
                            x.id = last.entry.id}) = 1

(***************************************************************************)
(* The flat collections of one project under every save and delete         *)
(* (commands/codex.rs 112-360).                                            *)
(***************************************************************************)

TemplateIds == {"m1", "m2"}

\* save_codex_template
SaveCodexTemplate(t) ==
    /\ templates' = Upsert(templates, t)
    /\ last' = [op |-> "save_codex_template"]
    /\ UNCHANGED <<itemFs, upserts, sse, otherFiles, disk, chat, codexVars, seriesCodexVars,
                   projVars, nextUuid, treeVars, lifeVars>>

\* delete_codex_template
DeleteCodexTemplate(id) ==
    /\ templates' = RetainOtherIds(templates, id)
    /\ last' = [op |-> "delete_codex_template"]
    /\ UNCHANGED <<itemFs, upserts, sse, otherFiles, disk, chat, codexVars, seriesCodexVars,
                   projVars, nextUuid, treeVars, lifeVars>>

\* The records the front end saves.
RelationInputs ==
    {[id |-> id, parentId |-> p, childId |-> "e2", projectId |-> 1, typeId |-> t] :
        id \in RelationIds, p \in EntryIds, t \in {"y1"}}

TagInputs == {[id |-> t] : t \in TwoTagIds}

EntryTagInputs == {[id |-> "x1", entryId |-> e, tagId |-> "t1"] : e \in EntryIds}

LinkInputs == {[id |-> "l1", sceneId |-> "sc1", codexId |-> e] : e \in EntryIds}

TypeInputs == {[id |-> t] : t \in TypeIds}

TemplateInputs == {[id |-> t] : t \in TemplateIds}

NextUpserts ==
    \/ \E r \in RelationInputs : SaveCodexRelation(r)
    \/ \E r \in RelationInputs : DeleteCodexRelation(r.id)
    \/ \E t \in TagInputs : SaveCodexTag(t)
    \/ \E t \in TagInputs : DeleteCodexTag(t.id)
    \/ \E x \in EntryTagInputs : SaveCodexEntryTag(x)
    \/ \E x \in EntryTagInputs : DeleteCodexEntryTag(x.id)
    \/ \E l \in LinkInputs : SaveSceneCodexLink(l)
    \/ \E l \in LinkInputs : DeleteSceneCodexLink(l.id)
    \/ \E t \in TypeInputs : SaveCodexRelationType(t)
    \/ \E t \in TypeInputs : DeleteCodexRelationType(t.id)
    \/ \E t \in TemplateInputs : SaveCodexTemplate(t)
    \/ \E t \in TemplateInputs : DeleteCodexTemplate(t.id)
    \/ \E e \in EntryIds, c \in Categories : DeleteCodexEntry(e, c)

SpecUpserts == InitEmpty /\ [][NextUpserts]_vars

\* The records of a collection have pairwise distinct ids.
DistinctIds(items) ==
    \A i, j \in 1..Len(items) : items[i].id = items[j].id => i = j

\* after is before with the record saved by id: the record of that id
\* replaced where it stood, or the record added at the end when no record
\* has that id; every other record where it was.
SavedById(before, after, item) ==
    IF \E i \in 1..Len(before) : before[i].id = item.id
    THEN /\ Len(after) = Len(before)
         /\ \A i \in 1..Len(before) :
                after[i] = IF before[i].id = item.id THEN item ELSE before[i]
    ELSE /\ Len(after) = Len(before) + 1
         /\ after[Len(after)] = item
         /\ \A i \in 1..Len(before) : after[i] = before[i]

\* Every save of a record into a flat collection saves it by id.
SaveStep ==
    /\ \A r \in RelationInputs :
           SaveCodexRelation(r) => SavedById(relations, relations', r)
    /\ \A t \in TagInputs : SaveCodexTag(t) => SavedById(tags, tags', t)
    /\ \A x \in EntryTagInputs :
           SaveCodexEntryTag(x) => SavedById(entryTags, entryTags', x)
    /\ \A l \in LinkInputs :
           SaveSceneCodexLink(l) => SavedById(sceneLinks, sceneLinks', l)
    /\ \A t \in TypeInputs :
           SaveCodexRelationType(t) => SavedById(relationTypes, relationTypes', t)
    /\ \A t \in TemplateInputs :
           SaveCodexTemplate(t) => SavedById(templates, templates', t)

\* The flat collections all have pairwise distinct ids.
AllDistinctIds ==
    /\ DistinctIds(relations)
    /\ DistinctIds(tags)
    /\ DistinctIds(entryTags)
    /\ DistinctIds(sceneLinks)
    /\ DistinctIds(relationTypes)
    /\ DistinctIds(templates)

\* C34: a save into a flat collection replaces the record of the same id
\* where it stands or, when there is none, adds the record at the end, and
\* leaves every other record and the order as they were; the ids of every
\* collection stay pairwise distinct under all saves and deletes.
C34_SaveIsUpsertById == [][SaveStep]_vars /\ []AllDistinctIds

\* A record has just been replaced at the first of two positions.
C34_Witness ==
    /\ last.op = "save_codex_relation"
    /\ Len(relations) = 2
    /\ relations[1].id = "r2" /\ relations[1].parentId = "e2"
    /\ Len(tags) = 2
    /\ Len(templates) = 2

(***************************************************************************)
(* What create_node leaves when it returns Ok (commands/project.rs         *)
(* 635-721).                                                               *)
(***************************************************************************)

\* C35: after create_node returns Ok(node), also for a parentId that matches
\* no node, the stored tree holds the node, and every manuscript file
\* create_node wrote is referenced by a node of the stored tree.
C35_CreatedNodeIsInTheStoredTree ==
    /\ last.op = "create_node" =>
           \E n \in NodesOfAll(structure) : n.id = nextUuid - 1
    /\ manuscript \subseteq ReferencedFiles(structure)

(***************************************************************************)
(* save_series_codex_entry step by step (commands/series.rs 393-420): the  *)
(* walk that removes every file named <id>.json, then the write of         *)
(* <category>/<id>.json, which can fail.                                   *)
(***************************************************************************)

\* Lines 394-412: the category folder is made and every file of the entry's
\* name found two levels under the codex root is removed.
SaveSeriesCodexEntryRemove(s, entry) ==
    /\ sse.pc = "idle"
    /\ seriesCodexFiles' =
           [seriesCodexFiles EXCEPT ![s] = @ \ FilesNamed(@, entry.id)]
    /\ sse' = [pc |-> "removed", series |-> s, entry |-> entry,
               existed |-> FilesNamed(seriesCodexFiles[s], entry.id) # {}]
    /\ last' = [op |-> "save_series_codex_entry_remove"]
    /\ UNCHANGED <<itemFs, upserts, templates, otherFiles, disk, chat, codexVars,
                   seriesRelations, projVars, nextUuid, treeVars, lifeVars>>

\* Lines 414-418: the entry is written and the call returns Ok.
SaveSeriesCodexEntryWrite ==
    /\ sse.pc = "removed"
    /\ seriesCodexFiles' =
           [seriesCodexFiles EXCEPT ![sse.series] = WriteEntryFile(@, sse.entry)]
    /\ sse' = [pc |-> "idle"]
    /\ last' = [op |-> "save_series_codex_entry", series |-> sse.series,
                entry |-> sse.entry]
    /\ UNCHANGED <<itemFs, upserts, templates, otherFiles, disk, chat, codexVars,
                   seriesRelations, projVars, nextUuid, treeVars, lifeVars>>

\* The write fails, or the program ends before it: no file is written and
\* the call, if it returns, returns Err.
SaveSeriesCodexEntryWriteFails ==
    /\ sse.pc = "removed"
    /\ sse' = [pc |-> "idle"]
    /\ last' = [op |-> "save_series_codex_entry_failed", series |-> sse.series,
                entry |-> sse.entry, existed |-> sse.existed]
    /\ UNCHANGED <<itemFs, upserts, templates, otherFiles, disk, chat, codexVars,
                   seriesCodexVars, projVars, nextUuid, treeVars, lifeVars>>

NextSeriesSaveSteps ==
    \/ \E s \in {1, 2}, e \in EntryIds, c \in Categories :
           SaveSeriesCodexEntryRemove(s, [category |-> c, id |-> e, projectId |-> NoUuid])
    \/ SaveSeriesCodexEntryWrite
    \/ SaveSeriesCodexEntryWriteFails

SpecSeriesSaveSteps == InitEmpty /\ [][NextSeriesSaveSteps]_vars

\* C36: when save_series_codex_entry saves an entry that has a file already,
\* a file of that entry is under the series codex root at every step of the
\* save, and after a save that failed in the middle.
C36_ResaveNeverLosesTheEntry ==
    /\ (sse.pc = "removed" /\ sse.existed) =>
           FilesNamed(seriesCodexFiles[sse.series], sse.entry.id) # {}
    /\ (last.op = "save_series_codex_entry_failed" /\ last.existed) =>
           FilesNamed(seriesCodexFiles[last.series], last.entry.id) # {}

(***************************************************************************)
(* The series a project names (commands/project.rs, commands/series.rs,    *)
(* commands/backup.rs): series and projects are created, updated, deleted  *)
(* and imported, one call after the other.                                 *)
(***************************************************************************)

\* The series ids the front end passes for a project: those of the series
\* that can exist, and one more.
ProjectSeriesInputs == 1..(MaxSeries + 1)

\* The backups imported here: those of at most one project, without codex
\* entries and relations.
BackupsOfProjects ==
    {b \in Backups : Len(b.projects) <= 1 /\ b.codex = <<>> /\ b.codexRelations = <<>>}

NextSeriesRefs ==
    \/ CreateSeries("Saga", {}, {}, {}, {})
    \/ \E s \in 1..MaxSeries : DeleteSeries(s)
    \/ \E s \in 1..MaxSeries : DeleteSeriesCascadeList(s)
    \/ DeleteSeriesCascadeProject("20250101_120000")
    \/ DeleteSeriesCascadeSeries
    \/ /\ dsc.pc = "idle"
       /\ nextUuid <= MaxSeries + 2
       /\ \E d \in ExistingBaseDirs, s \in ProjectSeriesInputs :
              CreateProject("Dune", d, s, "Book 1")
    \/ /\ dsc.pc = "idle"
       /\ \E s \in ProjectSeriesInputs :
              UpdateProject([dir |-> "Projects", name |-> <<Slugify("Dune")>>],
                            [title |-> {}, seriesId |-> {s}, seriesIndex |-> {}])
    \/ /\ dsc.pc = "idle"
       /\ \E backup \in BackupsOfProjects : ImportSeriesBackup(backup, 1)

SpecSeriesRefs == InitEmpty /\ [][NextSeriesRefs]_vars

\* C37: whatever create_series, delete_series, delete_series_cascade,
\* create_project, update_project and import_series_backup calls were made,
\* the seriesId of every listed project is the id of a listed series.
C37_ProjectsNameListedSeries ==
    dsc.pc = "idle" =>
        \A p \in ListedProjects :
            \E i \in 1..Len(seriesList) : seriesList[i].id = p.seriesId

(***************************************************************************)
(* restore_deleted_series called again (commands/series.rs 85-125,         *)
(* 174-184).                                                               *)
(***************************************************************************)

\* A restore_deleted_series step: it adds at most one series; it adds none
\* when a listed series has the record's title or the id the record was
\* restored under; and when the step before was a restore of the same
\* deleted series that returned Ok, it returns the same series and leaves
\* series.json and the registry of deleted series as they are.
RestoreStep ==
    \A old \in 1..MaxSeries :
        RestoreDeletedSeries(old) =>
            /\ Len(seriesList') <= Len(seriesList) + 1
            /\ \A i \in 1..Len(seriesList) : seriesList'[i] = seriesList[i]
            /\ \A r \in Range(deletedSeries) :
                   (/\ r.oldSeriesId = old
                    /\ \E x \in Range(seriesList) :
                           x.title = r.title \/ x.id \in r.restoredSeriesId)
                       => seriesList' = seriesList
            /\ (last.op = "restore_deleted_series" /\ last.seriesId = old /\ last.ok) =>
                   /\ last'.ok
                   /\ last'.result = last.result
                   /\ seriesList' = seriesList
                   /\ deletedSeries' = deletedSeries

\* C38: restore_deleted_series called again for the same deleted series,
\* nothing else in between, returns the same series and adds no series; a
\* call adds at most one series, and none when a listed series has the
\* title of the deleted one or the id recorded at an earlier restore.
C38_RestoreIsIdempotent == [][RestoreStep]_vars

\* A second restore in a row of a series that the first restore recreated.
C38_Witness ==
    /\ last.op = "restore_deleted_series"
    /\ last.ok
    /\ \E r \in last.record :
           /\ r.restoredSeriesId # {}
           /\ last.result # {}
           /\ \A x \in last.result : x.id \in r.restoredSeriesId /\ x.id > r.oldSeriesId

(***************************************************************************)
(* The relations of an imported series (commands/backup.rs 1034-1058).     *)
(***************************************************************************)

\* The ids the projects of the backup had.
BackupProjectIds(projects) ==
    {p.id : p \in UNION {payload.project : payload \in Range(projects)}}

\* C39: after import_series_backup returns Ok, every relation of the new
\* series has the id of a project created by this import as its projectId;
\* the relations are those of the backup whose projectId is the id of a
\* project of the backup, in their order, and a relation without projectId
\* or of another project is left out.
C39_ImportedRelationsNameNewProjects ==
    (last.op = "import_series_backup" /\ last.ok) =>
        LET imported == seriesRelations[last.seriesId]
            kept == SelectSeq(last.codexRelations,
                        LAMBDA r : r.projectId \in BackupProjectIds(last.projects))
        IN  /\ \A r \in Range(imported) : r.projectId \in Range(last.projectIds)
            /\ Len(imported) = Len(kept)
            /\ \A i \in 1..Len(kept) :
                   /\ imported[i].projectId \notin BackupProjectIds(last.projects)
                   /\ [imported[i] EXCEPT !.projectId = kept[i].projectId] = kept[i]

\* A relation of a project of the backup was imported under the new id.
C39_Witness ==
    /\ last.op = "import_series_backup"
    /\ last.ok
    /\ Len(last.projects) = 2
    /\ Len(seriesRelations[last.seriesId]) = 1
    /\ seriesRelations[last.seriesId][1].projectId = last.projectIds[2]

(***************************************************************************)
(* SpecSeriesRoundTrip: a series is exported with export_series_backup and *)
(* the exported documents are imported with import_series_backup.          *)
(***************************************************************************)
\* The series ids handed to export_series_backup: the two series and an id
\* that is no series.
ExportSeriesInputs == {1, 2, 3}

\* The enumerations of a set: the orders a directory listing or a sort on
\* equal keys may give.
SeqsOf(S) ==
    {q \in [1..Cardinality(S) -> S] : \A x \in S : \E i \in DOMAIN q : q[i] = x}

\* build_project_backup_payload: the project's meta, its structure tree and
\* the scene files that could be read.
ProjectBackupPayload(d) ==
    [project |-> {[id |-> d.id, title |-> d.title, seriesIndex |-> d.seriesIndex]},
     nodes |-> d.structure,
     sceneFiles |-> CollectBackupSceneFiles(d)]

\* A codex entry of the series as it stands in the document.
ExportedEntry(f) ==
    [id |-> {f.id}, category |-> {f.category}, projectId |-> f.projectId]

\* The documents export_series_backup may build for a series: the listed
\* projects of the series and its codex entries in any order, its relations.
SeriesBackups(series) ==
    {[backupType |-> "series",
      title |-> {series.title},
      projects |-> [i \in DOMAIN ps |-> ProjectBackupPayload(ps[i])],
      codex |-> [i \in DOMAIN es |-> ExportedEntry(es[i])],
      codexRelations |-> seriesRelations[series.id]] :
        ps \in SeqsOf({d \in ListedProjects : d.seriesId = series.id}),
        es \in SeqsOf(ListSeriesCodexEntries(series.id))}

\* export_series_backup: Err when no series has the id; else list_projects
\* rewrites the registry and the recent list, and the document is written to
\* output_path, or to <series>/exports/<slug>_series_backup_<timestamp>.json,
\* replacing what is there.
ExportSeriesBackup(seriesId, outputPath, now) ==
    /\ IF \A s \in Range(seriesList) : s.id # seriesId
       THEN /\ last' = [op |-> "export_series_backup", ok |-> FALSE]
            /\ UNCHANGED <<exports, registry, recent>>
       ELSE LET series == CHOOSE s \in Range(seriesList) : s.id = seriesId
                finalPath == IF outputPath = {}
                             THEN <<seriesId, Slugify(series.title), now>>
                             ELSE CHOOSE o \in outputPath : TRUE
            IN  /\ \E doc \in SeriesBackups(series) :
                       exports' = {e \in exports : e.path # finalPath} \cup
                                      {[path |-> finalPath, doc |-> doc]}
                /\ registry' = RegistryAfterList
                /\ recent' = RecentAfterList
                /\ last' = [op |-> "export_series_backup", ok |-> TRUE]
    /\ UNCHANGED <<ioVars, codexVars, seriesCodexVars, projectDirs, seriesList,
                   nextUuid, treeVars, trash, deletedSeries, dsc>>

\* delete_scene(project_path, scene_file): the file is removed from the
\* manuscript folder of the project when it is there; structure.json is not
\* touched.
DeleteSceneOfProject(at, file) ==
    /\ \E d \in projectDirs : d.at = at
    /\ projectDirs' =
           {IF d.at = at
            THEN [d EXCEPT !.manuscript = {f \in @ : f.name # file}]
            ELSE d : d \in projectDirs}
    /\ last' = [op |-> "delete_scene"]
    /\ UNCHANGED <<ioVars, lifeVars, codexVars, seriesCodexVars, registry, recent,
                   seriesList, nextUuid, treeVars>>

\* The folder an earlier import left for the first project of a backup.
ImportedDune == [dir |-> ProjectsDir, name |-> <<"dune", "20250101120000", 1>>]

\* Two series exist; the first has a codex entry, a relation and one project,
\* imported earlier, with an act, two scenes and their files.
InitSeriesRoundTrip ==
    /\ codexFiles = {}
    /\ relations = <<>>
    /\ sceneLinks = <<>>
    /\ entryTags = <<>>
    /\ tags = <<>>
    /\ relationTypes = <<>>
    /\ seriesCodexFiles =
           [s \in Uuids |->
               IF s = 1
               THEN {[category |-> "character", id |-> "e1", projectId |-> 3]}
               ELSE {}]
    /\ seriesRelations =
           [s \in Uuids |->
               IF s = 1
               THEN <<[id |-> "r1", parentId |-> "e1", childId |-> "e2",
                       projectId |-> 3, typeId |-> NoneId]>>
               ELSE <<>>]
    /\ projectDirs =
           {[at |-> ImportedDune, id |-> 3, title |-> "Dune", seriesId |-> 1,
             seriesIndex |-> "Book 1", path |-> ImportedDune,
             structure |-> <<[id |-> 10, type |-> "act", title |-> "Act",
                              order |-> 0,
                              children |-> <<BackupScene(11, "Untitled", 0)>>,
                              file |-> {}],
                             BackupScene(12, "Say \"hi\"", 1)>>,
             manuscript |-> {[name |-> SceneFileName(11),
                              content |-> SceneFile(11, "Untitled", 0, "Call me")],
                             [name |-> SceneFileName(12),
                              content |-> SceneFile(12, "Say \"hi\"", 1, "Ishmael")]}]}
    /\ registry = {ImportedDune}
    /\ recent = {ImportedDune}
    /\ seriesList = <<NewSeries(1, "Saga", {}, {}, {}, {}),
                    NewSeries(2, "Cycle", {}, {}, {}, {})>>
    /\ nextUuid = 4
    /\ structure = <<>>
    /\ manuscript = {}
    /\ dn = [pc |-> "idle"]
    /\ trash = {}
    /\ deletedSeries = <<>>
    /\ exports = {}
    /\ dsc = [pc |-> "idle"]
    /\ InitIo
    /\ last = [op |-> "init"]

NextSeriesRoundTrip ==
    \/ \E seriesId \in ExportSeriesInputs, outputPath \in OutputPaths,
          now \in ExportStamps :
           ExportSeriesBackup(seriesId, outputPath, now)
    \/ \E e \in exports, now \in Timestamps : ImportSeriesBackup(e.doc, now)
    \/ \E id \in {11, 12} : DeleteSceneOfProject(ImportedDune, SceneFileName(id))

SpecSeriesRoundTrip == InitSeriesRoundTrip /\ [][NextSeriesRoundTrip]_vars

\* list_projects on the snapshot taken when a command started.
ListedIn(snap) ==
    {d \in snap.projectDirs :
        d.at \in snap.registry \cup snap.recent \/ d.at.dir = ProjectsDir}

\* The listed projects of series s when the import started.
OriginalProjects(s) == {d \in ListedIn(last.pre) : d.seriesId = s}

\* The last command imported, past the title check, the document that
\* export_series_backup builds for series s as the series is at the import.
ExportedFrom(s) ==
    /\ last.op = "import_series_backup"
    /\ "seriesId" \in DOMAIN last
    /\ \E o \in Range(last.pre.seriesList) : o.id = s
    /\ Len(last.projects) = Cardinality(OriginalProjects(s))
    /\ \A d \in OriginalProjects(s) :
           \E i \in DOMAIN last.projects : last.projects[i] = ProjectBackupPayload(d)
    /\ Len(last.codex) = Cardinality(last.pre.seriesCodexFiles[s])
    /\ \A f \in last.pre.seriesCodexFiles[s] :
           \E i \in DOMAIN last.codex : last.codex[i] = ExportedEntry(f)
    /\ last.codexRelations = last.pre.seriesRelations[s]

\* The original of payload i.
OriginalOf(s, i) ==
    CHOOSE d \in OriginalProjects(s) : ProjectBackupPayload(d) = last.projects[i]

\* The folders the import wrote.
ImportedFolders == {d \in projectDirs : d.seriesId = last.seriesId}

\* The import made a new series with the title of series s and as many
\* projects, each with a new id and the title, the seriesIndex and the tree of
\* its original.
NewSeriesLikeOriginal(s) ==
    /\ last.ok
    /\ \A o \in Range(last.pre.seriesList) : o.id # last.seriesId
    /\ \E n \in Range(seriesList), o \in Range(last.pre.seriesList) :
           n.id = last.seriesId /\ o.id = s /\ n.title = o.title
    /\ Cardinality(ImportedFolders) = Cardinality(OriginalProjects(s))
    /\ Len(last.projectIds) = Cardinality(OriginalProjects(s))
    /\ \A i \in DOMAIN last.projectIds :
           /\ \A d \in last.pre.projectDirs : d.id # last.projectIds[i]
           /\ \E n \in ImportedFolders :
                  /\ n.id = last.projectIds[i]
                  /\ n.title = OriginalOf(s, i).title
                  /\ n.seriesIndex = OriginalOf(s, i).seriesIndex
                  /\ n.structure = OriginalOf(s, i).structure

\* Every file the tree refers to is in both folders with the same content.
SameSceneFiles(orig, new) ==
    \A name \in FilesOfNodes(orig.structure) :
        \E f \in orig.manuscript, g \in new.manuscript :
            f.name = name /\ g.name = name /\ g.content = f.content

\* Every file the tree refers to and the original has is in the new folder
\* with the same content; a file the original lacks is in the new folder.
SameSceneFilesWhereRead(orig, new) ==
    \A name \in FilesOfNodes(orig.structure) :
        /\ \E g \in new.manuscript : g.name = name
        /\ \A f \in orig.manuscript :
               f.name = name => [name |-> name, content |-> f.content] \in new.manuscript

\* Series s, its projects, its codex entries and its relations are as they
\* were before the import.
OriginalUnchanged(s) ==
    /\ SubSeq(seriesList, 1, Len(last.pre.seriesList)) = last.pre.seriesList
    /\ \A d \in last.pre.projectDirs : d.seriesId = s => d \in projectDirs
    /\ seriesCodexFiles[s] = last.pre.seriesCodexFiles[s]
    /\ seriesRelations[s] = last.pre.seriesRelations[s]

\* No folder the import wrote was there before it.
NoFolderTaken ==
    \A n \in ImportedFolders, d \in last.pre.projectDirs : d.at # n.at

====
